---- MODULE Spec2Model ----
(***************************************************************************)
(* Model of src/main.js: the capture pipeline (handleCapture, performOCR,  *)
(* queryGemini), the global key listener (setupGlobalListener), service    *)
(* initialisation (initializeServices, initializeGeminiModel), the command *)
(* line handler's 'capture', 'quit', 'set-apikey', 'set-model' and         *)
(* 'set-trigger' commands, and shutdown.                                   *)
(*                                                                         *)
(* Scheduling follows Node's event loop: every action is one callback or   *)
(* one continuation after an await, run to its next await.  Callbacks      *)
(* queued with setImmediate run back to back in the check phase; no I/O    *)
(* callback, timer or continuation runs between two of them.               *)
(***************************************************************************)
EXTENDS Integers, Sequences, FiniteSets, TLC

VARIABLES
    operatingSystem,  \* state.operatingSystem
    isRunning,        \* state.isRunning
    isProcessing,     \* state.isProcessing
    apiKey,           \* state.apiKey
    aiModel,          \* state.aiModel
    googleAI,         \* state.googleAI
    model,            \* state.model
    worker,           \* state.worker
    triggerKey,       \* state.triggerKey
    globalListener,   \* state.globalListener
    observers,        \* OS-level key observers alive (each calls the listener callback)
    immediates,       \* setImmediate(() => handleCapture('hotkey')) callbacks pending
    checkPhase,       \* the event loop is running its queued immediates
    cycle,            \* the locals of the handleCapture call in flight (or of the last one)
    active,           \* handleCapture calls between their acceptance and the end of their finally
    fileExists,       \* screenshot.png exists in storage
    lastWarn,         \* last logWarn message of the step just taken (Null: none)
    lastError,        \* last logError message of the step just taken (Null: none)
    errorNotified,    \* that logError raised an 'AI Helper Error' notification
    shuttingDown,     \* module-level flag of handleExitSignal
    shutdownPc,       \* position of the shutdown() call
    rlClosed,         \* rl.closed
    exited,           \* process.exit has run
    exitCode,         \* the code given to process.exit, 0 until then
    fatalPending,     \* a fatal-error handler waits for shutdown() to exit
    fetchedModels,    \* state.fetchedModels
    handlers,         \* the initializeServices calls in flight: main's (0), set-apikey's
    picker,           \* the 'set-model' handler in flight
    workersCreated,   \* Tesseract workers created so far
    saves,            \* saveEnvSettings calls of 'set-trigger' handlers in flight
    customPrompt,     \* state.customPrompt
    debugMode,        \* state.debugMode
    envFile,          \* the settings in the .env file, << >> while there is no file
    writes,           \* the saveEnvSettings calls of 'prompt' and 'debug' in flight
    saveFailed,       \* a saveEnvSettings call has logged its failure
    shutdowns         \* times the cleanup sequence of shutdown() has been started

vars == << operatingSystem, isRunning, isProcessing, apiKey, aiModel, googleAI, model,
           worker, triggerKey, globalListener, observers, immediates,
           checkPhase, cycle, active, fileExists, lastWarn, lastError,
           errorNotified, shuttingDown, shutdownPc, rlClosed, exited,
           exitCode, fatalPending,
           fetchedModels, handlers, picker, workersCreated, saves,
           customPrompt, debugMode, envFile, writes, saveFailed, shutdowns >>

\* the settings saveEnvSettings writes besides the ones above, and the file
settingsVars == << customPrompt, debugMode, envFile, writes, saveFailed >>

-----------------------------------------------------------------------------
(* Bounds and program constants *)

\* setImmediate callbacks that may be pending at once
MaxImmediates == 2

\* saveEnvSettings calls of 'prompt' and 'debug' that may be in flight at once
MaxWrites == 2

\* length of the long AI response text
LongLen == 300

\* geminiResponse.substring(0, 256)
NotifyMax == 256

\* 'set-apikey' handlers that may be in flight at once
MaxSetApikey == 1

\* OS-level key observers that may be alive at once
MaxObservers == 2

\* saveEnvSettings calls of 'set-trigger' handlers that may be in flight at once
MaxSaves == 1

\* models shown per page by 'set-model'
MODELS_PER_PAGE == 5

Null == "null"

-----------------------------------------------------------------------------
(* Strings *)

Min(a, b) == IF a < b THEN a ELSE b

\* String.prototype.substring(from, to), 0-based, end exclusive
Substring(s, from, to) ==
    LET lo == Min(from, Len(s))
        hi == Min(to, Len(s))
    IN  IF hi <= lo THEN "" ELSE SubSeq(s, lo + 1, hi)

\* the i-th character of s (1-based)
CharAt(s, i) == SubSeq(s, i, i)

\* String.prototype.startsWith
StartsWith(s, p) == Len(s) >= Len(p) /\ SubSeq(s, 1, Len(p)) = p

\* String.prototype.repeat
RECURSIVE Repeat(_, _)
Repeat(s, n) ==
    IF n = 0 THEN ""
    ELSE LET half == Repeat(s, n \div 2)
         IN  IF n % 2 = 0 THEN half \o half ELSE half \o half \o s

ERROR_PREFIX == ">"

OCR_NOT_READY == "Error: Tesseract not ready."

OCR_FAILED == "Error during OCR."

OCR_PLACEHOLDER == "(No text detected by OCR)"

\* texts worker.recognize may produce
OcrTexts == {"", "Invoice total 42"}

\* texts the model may answer with: short, starting with '>', longer than 256
ResponseTexts == {"The total is 42.", "> quoted answer", Repeat("a", LongLen)}

-----------------------------------------------------------------------------
(* The context a handleCapture call reads and writes: its locals and the   *)
(* fields of the program state it assigns (isProcessing, the log).         *)

IdleCycle ==
    [ pc |-> "idle", source |-> "none", ocrText |-> Null, ocrPart |-> Null,
      geminiResponse |-> Null, notified |-> << >>, output |-> Null,
      outcome |-> "none", error |-> Null, cleanup |-> "none" ]

Ctx ==
    cycle @@ [ isProcessing |-> isProcessing, active |-> active, err |-> Null,
               errNote |-> FALSE, warn |-> Null ]

Commit(c) ==
    /\ cycle' = [f \in DOMAIN cycle |-> c[f]]
    /\ isProcessing' = c.isProcessing
    /\ active' = c.active
    /\ lastError' = c.err
    /\ errorNotified' = c.errNote
    /\ lastWarn' = c.warn

\* LogError raising the notification whenever the program is running
LogErrorWhileBusy(c, msg) == [c EXCEPT !.err = msg, !.errNote = isRunning]

\* logError: the message is printed; the desktop notification is raised only
\* when running and not processing
LogError(c, msg) ==
    [c EXCEPT !.err = msg, !.errNote = isRunning /\ ~c.isProcessing]

LogWarn(c, msg) == [c EXCEPT !.warn = msg]

\* a step that prints no warning and no error
NoLog == lastWarn' = Null /\ lastError' = Null /\ errorNotified' = FALSE

-----------------------------------------------------------------------------
(* handleCapture, performOCR and queryGemini as functions of the context   *)

\* the finally block begins: await fs.access(screenshotPath)
EnterFinally(c) == [c EXCEPT !.pc = "access"]

\* the end of the finally block
ReleaseLock(c) ==
    [c EXCEPT !.pc = "idle", !.isProcessing = FALSE, !.active = @ - 1]

\* the catch block of handleCapture
CatchBlock(c, message) ==
    EnterFinally(LogError([c EXCEPT !.outcome = "failed", !.error = message],
                          "Capture process failed: " \o message))

\* IsGeminiError looking for the marker of performOCR's failures instead
IsGeminiErrorWordPrefix(resp) == StartsWith(resp, "Error:")

\* geminiResponse.startsWith(ERROR_PREFIX)
IsGeminiError(resp) == StartsWith(resp, ERROR_PREFIX)

\* message: geminiResponse.substring(0, 256)
NotificationMessage(resp) == Substring(resp, 0, NotifyMax)

\* step 4: notifier.notify, logInfo(geminiResponse), logSuccess
ShowResult(c, resp, notifyOk) ==
    LET n == [c EXCEPT !.notified = Append(@, NotificationMessage(resp))]
    IN  IF notifyOk
        THEN EnterFinally([n EXCEPT !.output = resp, !.outcome = "success"])
        ELSE CatchBlock(n, "notifier failed")

\* handleCapture after `await queryGemini(...)` has returned resp
QueryReturned(c, resp, notifyOk) ==
    LET d == [c EXCEPT !.geminiResponse = resp]
    IN  IF IsGeminiError(resp)
        THEN CatchBlock(d, Substring(resp, Len(ERROR_PREFIX) + 1, Len(resp)))
        ELSE ShowResult(d, resp, notifyOk)

\* NotReadyFailure without the check of the bound model
NotReadyFailureNoModel ==
    IF apiKey = Null THEN ERROR_PREFIX \o " Error: Gemini API Key not set."
    ELSE IF googleAI = Null
    THEN ERROR_PREFIX \o " Error: Gemini client not initialized."
    ELSE Null

\* the three not-ready checks that open queryGemini
NotReadyFailure ==
    IF apiKey = Null THEN ERROR_PREFIX \o " Error: Gemini API Key not set."
    ELSE IF googleAI = Null
    THEN ERROR_PREFIX \o " Error: Gemini client not initialized."
    ELSE IF model = Null
    THEN ERROR_PREFIX \o " Error: Gemini model (" \o aiModel \o ") not initialized."
    ELSE Null

\* queryGemini up to `await fileToGenerativePart(...)`
QueryGemini(c) ==
    IF NotReadyFailure # Null
    THEN QueryReturned(c, NotReadyFailure, TRUE)
    ELSE [c EXCEPT !.pc = "readImage"]

\* handleCapture after `await performOCR(...)` has returned text
AfterOCR(c, text) ==
    LET d == [c EXCEPT !.ocrText = text]
        e == IF StartsWith(text, "Error:")
             THEN LogError(d, "OCR step failed: " \o Substring(text, 7, Len(text)))
             ELSE d
    IN  QueryGemini(e)

\* performOCR up to `await state.worker.recognize(...)`
PerformOCR(c) ==
    IF worker = Null
    THEN AfterOCR(LogError(c, "Tesseract worker not initialized."), OCR_NOT_READY)
    ELSE [c EXCEPT !.pc = "recognize"]

\* { text: ocrText || "(No text detected by OCR)" }
OcrTextPart(text) == IF text = "" THEN OCR_PLACEHOLDER ELSE text

\* PrereqsMissing without the check of the bound model
PrereqsMissingNoModel == apiKey = Null \/ googleAI = Null

\* if (!state.apiKey || !state.googleAI || !state.model)
PrereqsMissing == apiKey = Null \/ googleAI = Null \/ model = Null

\* HandleCapture without the isProcessing check
HandleCaptureNoBusyCheck(c, triggerSource) ==
    IF PrereqsMissing \/ worker = Null
    THEN LogError(c, "Cannot capture")
    ELSE [c EXCEPT !.isProcessing = TRUE, !.active = @ + 1, !.pc = "listDisplays",
                   !.source = triggerSource, !.ocrText = Null, !.ocrPart = Null,
                   !.geminiResponse = Null, !.notified = << >>, !.output = Null,
                   !.outcome = "running", !.error = Null, !.cleanup = "pending"]

\* HandleCapture checking the prerequisites for hotkey triggers only
HandleCaptureCommandUnchecked(c, triggerSource) ==
    IF c.isProcessing
    THEN LogWarn(c, "Already processing. Ignoring trigger from " \o triggerSource \o ".")
    ELSE IF triggerSource = "hotkey" /\ PrereqsMissing
    THEN LogWarn(LogError(c, "Cannot capture: Gemini API Key or Model not configured/initialized."),
                 "Use 'set-apikey' and 'set-model' commands first.")
    ELSE IF triggerSource = "hotkey" /\ worker = Null
    THEN LogError(c, "Cannot capture: Tesseract worker not initialized.")
    ELSE [c EXCEPT !.isProcessing = TRUE, !.active = @ + 1, !.pc = "listDisplays",
                   !.source = triggerSource, !.ocrText = Null, !.ocrPart = Null,
                   !.geminiResponse = Null, !.notified = << >>, !.output = Null,
                   !.outcome = "running", !.error = Null, !.cleanup = "pending"]

\* handleCapture from its entry to its first await
HandleCapture(c, triggerSource) ==
    IF c.isProcessing
    THEN LogWarn(c, "Already processing. Ignoring trigger from " \o triggerSource \o ".")
    ELSE IF PrereqsMissing
    THEN LogWarn(LogError(c, "Cannot capture: Gemini API Key or Model not configured/initialized."),
                 "Use 'set-apikey' and 'set-model' commands first.")
    ELSE IF worker = Null
    THEN LogError(c, "Cannot capture: Tesseract worker not initialized.")
    ELSE [c EXCEPT !.isProcessing = TRUE, !.active = @ + 1, !.pc = "listDisplays",
                   !.source = triggerSource, !.ocrText = Null, !.ocrPart = Null,
                   !.geminiResponse = Null, !.notified = << >>, !.output = Null,
                   !.outcome = "running", !.error = Null, !.cleanup = "pending"]

-----------------------------------------------------------------------------
(* queryGemini: what it makes of the generation endpoint's answer          *)

\* String.prototype.includes
Includes(s, sub) ==
    \E i \in 1..(Len(s) - Len(sub) + 1) : SubSeq(s, i, i + Len(sub) - 1) = sub

\* answers of state.model.generateContent: a response whose parts join to
\* `text`, a response without candidates, or a thrown error
ApiOutcomes ==
    [kind : {"text"}, text : ResponseTexts \cup {""}, blockReason : {Null},
     finishReason : {"STOP"}]
    \cup [kind : {"nocandidates"}, text : {Null}, blockReason : {Null, "SAFETY"},
          finishReason : {Null}]
    \cup [kind : {"noparts"}, text : {Null}, blockReason : {Null},
          finishReason : {Null, "MAX_TOKENS"}]
    \cup [kind : {"noparts"}, text : {Null}, blockReason : {"SAFETY"},
          finishReason : {"MAX_TOKENS"}]
    \cup [kind : {"throw"}, text : {"models/x is not found", "fetch failed", Null},
          blockReason : {Null}, finishReason : {Null}]

Returned(v) == [threw |-> FALSE, value |-> v]

Thrown(m) == [threw |-> TRUE, value |-> m]

\* the catch block of queryGemini; message = Null is an error without message
GeminiCatch(message) ==
    IF message = Null
    THEN Thrown("Cannot read properties of undefined (reading 'includes')")
    ELSE IF (message # "" /\ Includes(message, "not found")) \/ Includes(message, "permission")
    THEN Returned(ERROR_PREFIX \o " Error with model " \o aiModel \o ": " \o message)
    ELSE Returned(ERROR_PREFIX \o " Error communicating with Gemini: "
                  \o (IF message = "" THEN "Unknown Gemini Error" ELSE message))

\* queryGemini after `await state.model.generateContent(...)`
GeminiResult(r) ==
    IF r.kind = "throw" THEN GeminiCatch(r.text)
    ELSE IF r.kind \in {"nocandidates", "noparts"}
    THEN Returned(ERROR_PREFIX \o " Error: Gemini response blocked, empty, or incomplete. Reason: "
                  \o (IF r.blockReason # Null THEN r.blockReason
                      ELSE IF r.finishReason # Null THEN r.finishReason
                      ELSE "Unknown") \o ".")
    ELSE IF r.text = ""
    THEN Returned(ERROR_PREFIX \o " Error: Gemini response missing text content.")
    ELSE Returned(r.text)

\* handleCapture after queryGemini has settled with g
QuerySettled(c, g, notifyOk) ==
    IF g.threw THEN CatchBlock(c, g.value) ELSE QueryReturned(c, g.value, notifyOk)

\* queryGemini after `await fileToGenerativePart(...)`: the prompt parts are
\* built and state.model.generateContent is called
SendRequest(c) ==
    IF model = Null
    THEN QuerySettled(c, GeminiCatch("Cannot read properties of null (reading 'generateContent')"), TRUE)
    ELSE [c EXCEPT !.pc = "generateContent", !.ocrPart = OcrTextPart(c.ocrText)]

\* CleanupFailed with an error other than ENOENT escaping the finally block
\* before the lock is released
CleanupFailedRethrows(c, code) ==
    IF code # "ENOENT"
    THEN [c EXCEPT !.pc = "idle", !.active = @ - 1, !.cleanup = "failed"]
    ELSE ReleaseLock([c EXCEPT !.cleanup = "absent"])

\* CleanupFailed with every error taken for a missing file
CleanupFailedAsMissing(c, code) == ReleaseLock([c EXCEPT !.cleanup = "absent"])

\* the catch block inside the finally block, then the release of the lock
CleanupFailed(c, code) ==
    ReleaseLock(IF code # "ENOENT"
                THEN LogWarn([c EXCEPT !.cleanup = "failed"],
                             "Could not delete screenshot file: " \o code)
                ELSE [c EXCEPT !.cleanup = "absent"])

\* fs.unlink succeeded, then the release of the lock
CleanupDone(c) == ReleaseLock([c EXCEPT !.cleanup = "deleted"])

-----------------------------------------------------------------------------
(* The capture cycle: one action per await of handleCapture                *)

configVars == << operatingSystem, apiKey, aiModel, googleAI, model, triggerKey,
                 fetchedModels, handlers, picker, workersCreated, saves, settingsVars >>

shutdownVars == << isRunning, worker, globalListener, observers, shuttingDown,
                   shutdownPc, rlClosed, exited, exitCode, fatalPending, shutdowns >>

\* an I/O callback, timer or continuation may run
Turn == ~exited /\ ~checkPhase

\* `await screenshot.listDisplays()` settles
ListDisplaysDone ==
    /\ Turn /\ cycle.pc = "listDisplays"
    /\ \E r \in {"displays", "none", "throw"} :
         Commit(IF r = "displays" THEN [Ctx EXCEPT !.pc = "screenshot"]
                ELSE IF r = "none" THEN CatchBlock(Ctx, "No displays found.")
                ELSE CatchBlock(Ctx, "listDisplays failed"))
    /\ UNCHANGED << configVars, shutdownVars, immediates, checkPhase, fileExists >>

\* `await screenshot({ filename, screen })` settles
ScreenshotDone ==
    /\ Turn /\ cycle.pc = "screenshot"
    /\ \E ok \in BOOLEAN, written \in BOOLEAN :
         IF ok
         THEN fileExists' = TRUE /\ Commit(PerformOCR(Ctx))
         ELSE /\ fileExists' = (fileExists \/ written)
              /\ Commit(CatchBlock(Ctx, "screenshot failed"))
    /\ UNCHANGED << configVars, shutdownVars, immediates, checkPhase >>

\* `await state.worker.recognize(imagePath)` settles
RecognizeDone ==
    /\ Turn /\ cycle.pc = "recognize"
    /\ \E threw \in BOOLEAN, text \in OcrTexts :
         Commit(IF threw
                THEN AfterOCR(LogError(Ctx, "OCR process failed"), OCR_FAILED)
                ELSE AfterOCR(Ctx, text))
    /\ UNCHANGED << configVars, shutdownVars, immediates, checkPhase, fileExists >>

\* `await fs.readFile(filePath)` in fileToGenerativePart settles
ReadImageDone ==
    /\ Turn /\ cycle.pc = "readImage"
    /\ \E ok \in BOOLEAN :
         /\ ok => fileExists
         /\ Commit(IF ok THEN SendRequest(Ctx)
                   ELSE QuerySettled(Ctx, GeminiCatch("ENOENT: no such file or directory"), TRUE))
    /\ UNCHANGED << configVars, shutdownVars, immediates, checkPhase, fileExists >>

\* `await state.model.generateContent(...)` settles
GenerateSettles(r, notifyOk) ==
    /\ Turn /\ cycle.pc = "generateContent"
    /\ Commit(QuerySettled(Ctx, GeminiResult(r), notifyOk))
    /\ UNCHANGED << configVars, shutdownVars, immediates, checkPhase, fileExists >>

GenerateDone == \E r \in ApiOutcomes, notifyOk \in BOOLEAN : GenerateSettles(r, notifyOk)

\* `await fs.access(screenshotPath)` settles
AccessDone ==
    /\ Turn /\ cycle.pc = "access"
    /\ IF fileExists
       THEN \E ok \in BOOLEAN :
              Commit(IF ok THEN [Ctx EXCEPT !.pc = "unlink"]
                     ELSE CleanupFailed(Ctx, "EACCES"))
       ELSE Commit(CleanupFailed(Ctx, "ENOENT"))
    /\ UNCHANGED << configVars, shutdownVars, immediates, checkPhase, fileExists >>

\* `await fs.unlink(screenshotPath)` settles
UnlinkDone ==
    /\ Turn /\ cycle.pc = "unlink"
    /\ \E ok \in BOOLEAN :
         IF ok
         THEN fileExists' = FALSE /\ Commit(CleanupDone(Ctx))
         ELSE UNCHANGED fileExists /\ Commit(CleanupFailed(Ctx, "EPERM"))
    /\ UNCHANGED << configVars, shutdownVars, immediates, checkPhase >>

-----------------------------------------------------------------------------
(* The global key listener                                                 *)

KeyNames == {"C", "P"}

\* a key event as the callback sees it: event.name, event.state, and the
\* `down` map reduced to one flag per modifier (left or right key held)
Events ==
    [name : KeyNames, state : {"DOWN", "UP"},
     ctrl : BOOLEAN, shift : BOOLEAN, alt : BOOLEAN, meta : BOOLEAN]

\* ListenerIgnores without the check of isProcessing
ListenerIgnoresNotBusy(ev) == ev.state # "DOWN" \/ ~isRunning

\* if (event.state !== "DOWN" || !state.isRunning || state.isProcessing) return
ListenerIgnores(ev) == ev.state # "DOWN" \/ ~isRunning \/ isProcessing

\* KeyMatches with a modifier the combination does not require left "don't care"
KeyMatchesDontCare(ev) ==
    LET ctrlOrMeta == ev.ctrl \/ (operatingSystem = "darwin" /\ ev.meta)
    IN  /\ ev.name = triggerKey.name
        /\ triggerKey.ctrl => ctrlOrMeta
        /\ triggerKey.shift => ev.shift
        /\ triggerKey.alt => ev.alt
        /\ triggerKey.meta => ev.meta

\* keyNameMatch && ctrlMatch && shiftMatch && altMatch && metaMatch
KeyMatches(ev) ==
    LET ctrlOrMeta == ev.ctrl \/ (operatingSystem = "darwin" /\ ev.meta)
        ctrlMatch  == IF triggerKey.ctrl THEN ctrlOrMeta ELSE ~ctrlOrMeta
        shiftMatch == IF triggerKey.shift THEN ev.shift ELSE ~ev.shift
        altMatch   == IF triggerKey.alt THEN ev.alt ELSE ~ev.alt
        metaMatch  == IF triggerKey.meta THEN ev.meta ELSE ~ev.meta
    IN  ev.name = triggerKey.name /\ ctrlMatch /\ shiftMatch /\ altMatch /\ metaMatch

\* ListenerCallback calling handleCapture('hotkey') itself, without setImmediate
ListenerCallbackSync(ev) ==
    /\ IF ~ListenerIgnores(ev) /\ KeyMatches(ev)
       THEN Commit(HandleCapture(Ctx, "hotkey"))
       ELSE NoLog /\ UNCHANGED << isProcessing, cycle, active >>
    /\ UNCHANGED << configVars, shutdownVars, immediates, checkPhase, fileExists >>

\* the callback given to addListener
ListenerCallback(ev) ==
    /\ IF ~ListenerIgnores(ev) /\ KeyMatches(ev)
       THEN immediates' = immediates + 1
       ELSE UNCHANGED immediates
    /\ NoLog
    /\ UNCHANGED << configVars, shutdownVars, isProcessing, checkPhase, cycle,
                    active, fileExists >>

\* an alive observer reports a key event
KeyEvent ==
    /\ Turn /\ observers > 0
    /\ \E ev \in Events :
         /\ (~ListenerIgnores(ev) /\ KeyMatches(ev)) => immediates < MaxImmediates
         /\ ListenerCallback(ev)

\* RunImmediate leaving a trigger it could not serve in the queue
RunImmediateRequeues ==
    /\ ~exited /\ immediates > 0
    /\ Commit(HandleCapture(Ctx, "hotkey"))
    /\ immediates' = (IF isProcessing THEN immediates ELSE immediates - 1)
    /\ checkPhase' = (immediates' > 0)
    /\ UNCHANGED << configVars, shutdownVars, fileExists >>

\* the check phase runs one queued () => handleCapture('hotkey')
RunImmediate ==
    /\ ~exited /\ immediates > 0
    /\ Commit(HandleCapture(Ctx, "hotkey"))
    /\ immediates' = immediates - 1
    /\ checkPhase' = (immediates > 1)
    /\ UNCHANGED << configVars, shutdownVars, fileExists >>

-----------------------------------------------------------------------------
(* The command line handler and shutdown                                   *)

\* the guard that opens rl.on('line'); while rl.question waits for an answer
\* (picker.pc = "ask") a typed line goes to the question, not to this handler
LineIgnored(command) ==
    (~isRunning /\ command \notin {"quit", "exit"}) \/ isProcessing

\* shutdown() runs started by the 'close' event that rl.close() emits inside
\* shutdown(): the handler calls shutdown('readline_close') when it finds
\* state.isRunning true, and that call runs the sequence when isRunning is
\* still true; rl.close() emits nothing on an interface already closed
CloseEventRuns(running, closed) == IF ~closed /\ running THEN 1 ELSE 0

\* ShutdownSequence closing readline before `state.isRunning = false`
ShutdownClosesFirst(err, note) ==
    IF ~isRunning
    THEN /\ lastError' = err /\ errorNotified' = note
         /\ UNCHANGED << isRunning, worker, globalListener, observers, shutdownPc,
                         rlClosed, shutdowns >>
    ELSE /\ isRunning' = FALSE
         /\ shutdowns' = shutdowns + 1 + CloseEventRuns(isRunning, rlClosed)
         /\ IF globalListener # Null
            THEN \E killThrows \in BOOLEAN :
                   IF killThrows
                   THEN /\ observers' \in {observers, observers - 1}
                        /\ lastError' = "Error stopping global key listener during shutdown"
                        /\ errorNotified' = note
                   ELSE /\ observers' = observers - 1
                        /\ lastError' = err /\ errorNotified' = note
            ELSE /\ lastError' = err /\ errorNotified' = note
                 /\ UNCHANGED observers
         /\ globalListener' = Null
         /\ rlClosed' = TRUE
         /\ shutdownPc' = IF worker # Null THEN "terminate" ELSE "exitTimer"
         /\ UNCHANGED worker

\* shutdown(signal) up to `await state.worker.terminate()` or to the exit timer
ShutdownSequence(err, note) ==
    IF ~isRunning
    THEN /\ lastError' = err /\ errorNotified' = note
         /\ UNCHANGED << isRunning, worker, globalListener, observers, shutdownPc,
                         rlClosed, shutdowns >>
    ELSE /\ isRunning' = FALSE
         /\ shutdowns' = shutdowns + 1 + CloseEventRuns(FALSE, rlClosed)
         /\ IF globalListener # Null
            THEN \E killThrows \in BOOLEAN :
                   IF killThrows
                   THEN /\ observers' \in {observers, observers - 1}
                        /\ lastError' = "Error stopping global key listener during shutdown"
                        /\ errorNotified' = note
                   ELSE /\ observers' = observers - 1
                        /\ lastError' = err /\ errorNotified' = note
            ELSE /\ lastError' = err /\ errorNotified' = note
                 /\ UNCHANGED observers
         /\ globalListener' = Null
         /\ rlClosed' = TRUE
         /\ shutdownPc' = IF worker # Null THEN "terminate" ELSE "exitTimer"
         /\ UNCHANGED worker

\* shutdown(signal) called with nothing logged before it
Shutdown == ShutdownSequence(Null, FALSE)

\* the line 'capture' (or 'c')
CaptureCommand ==
    /\ Turn /\ ~rlClosed /\ picker.pc # "ask"
    /\ IF LineIgnored("capture")
       THEN NoLog /\ UNCHANGED << cycle, isProcessing, active >>
       ELSE Commit(HandleCapture(Ctx, "command"))
    /\ UNCHANGED << configVars, shutdownVars, immediates, checkPhase, fileExists >>

\* the line 'quit' (or 'exit')
QuitCommand ==
    /\ Turn /\ ~rlClosed /\ picker.pc # "ask"
    /\ IF LineIgnored("quit")
       THEN /\ lastError' = Null /\ errorNotified' = FALSE
            /\ UNCHANGED << isRunning, worker, globalListener, observers,
                            shutdownPc, rlClosed, shutdowns >>
       ELSE Shutdown
    /\ lastWarn' = Null
    /\ UNCHANGED << configVars, shuttingDown, exited, exitCode, fatalPending,
                    isProcessing, immediates,
                    checkPhase, cycle, active, fileExists >>

\* SIGINT or SIGTERM: handleExitSignal
ExitSignal ==
    /\ Turn
    /\ IF ~shuttingDown /\ isRunning
       THEN shuttingDown' = TRUE /\ Shutdown
       ELSE /\ lastError' = Null /\ errorNotified' = FALSE
            /\ UNCHANGED << shuttingDown, isRunning, worker, globalListener,
                            observers, shutdownPc, rlClosed, shutdowns >>
    /\ lastWarn' = Null
    /\ UNCHANGED << configVars, exited, exitCode, fatalPending, isProcessing,
                    immediates, checkPhase,
                    cycle, active, fileExists >>

\* the 'close' event of readline when the input ends: rl.on('close')
ReadlineClose ==
    /\ Turn /\ ~rlClosed
    /\ IF isRunning
       THEN /\ Shutdown
            /\ lastWarn' = "Readline closed unexpectedly. Initiating shutdown..."
       ELSE /\ lastError' = Null /\ errorNotified' = FALSE /\ lastWarn' = Null
            /\ rlClosed' = TRUE
            /\ UNCHANGED << isRunning, worker, globalListener, observers, shutdownPc,
                            shutdowns >>
    /\ UNCHANGED << configVars, shuttingDown, exited, exitCode, fatalPending,
                    isProcessing, immediates, checkPhase, cycle, active, fileExists >>

\* TerminateDone leaving the exit to the timer of shutdown()
TerminateDoneExitsByTimer ==
    /\ Turn /\ shutdownPc = "terminate"
    /\ \E threw \in BOOLEAN :
         IF threw
         THEN /\ lastError' = "Error during Tesseract worker termination"
              /\ errorNotified' = FALSE
         ELSE lastError' = Null /\ errorNotified' = FALSE
    /\ lastWarn' = Null
    /\ worker' = Null
    /\ shutdownPc' = "exitTimer"
    /\ UNCHANGED << configVars, isRunning, globalListener, observers, shuttingDown,
                    shutdowns, rlClosed, exited, exitCode, fatalPending, isProcessing,
                    immediates, checkPhase, cycle, active, fileExists >>

\* `await state.worker.terminate()` settles; the exit timer is set and
\* shutdown() returns: a fatal-error handler that called it runs its
\* `.finally(() => process.exit(1))`
TerminateDone ==
    /\ Turn /\ shutdownPc = "terminate"
    /\ \E threw \in BOOLEAN :
         IF threw
         THEN /\ lastError' = "Error during Tesseract worker termination"
              /\ errorNotified' = FALSE
         ELSE lastError' = Null /\ errorNotified' = FALSE
    /\ lastWarn' = Null
    /\ worker' = Null
    /\ shutdownPc' = "exitTimer"
    /\ IF fatalPending
       THEN exited' = TRUE /\ exitCode' = 1
       ELSE UNCHANGED << exited, exitCode >>
    /\ UNCHANGED << configVars, isRunning, globalListener, observers, shuttingDown,
                    shutdowns, rlClosed, fatalPending, isProcessing, immediates, checkPhase,
                    cycle, active, fileExists >>

\* setTimeout(() => process.exit(0), 100) fires; the timers phase comes after
\* the check phase has run the immediates queued before it
ExitTimer ==
    /\ Turn /\ shutdownPc = "exitTimer" /\ immediates = 0
    /\ exited' = TRUE
    /\ exitCode' = 0
    /\ shutdownPc' = "done"
    /\ NoLog
    /\ UNCHANGED << configVars, isRunning, worker, globalListener, observers,
                    shuttingDown, shutdowns, rlClosed, fatalPending, isProcessing,
                    immediates, checkPhase, cycle, active, fileExists >>

\* the events that reach the handlers of 'uncaughtException' and
\* 'unhandledRejection'
FatalEvents == {"uncaughtException", "unhandledRejection"}

\* the first error message the handler of a fatal event logs
FatalMessage(event) ==
    IF event = "uncaughtException" THEN "FATAL: Uncaught Exception at: " \o event
    ELSE "Reason:"

\* process.on('uncaughtException') and process.on('unhandledRejection'): the
\* error is logged; with no shutdown begun shutdown() is called and the exit
\* with code 1 follows its return, else the process exits at once
FatalError ==
    /\ Turn
    /\ lastWarn' = Null
    /\ \E event \in FatalEvents :
         IF ~shuttingDown /\ isRunning
         THEN /\ shuttingDown' = TRUE
              /\ ShutdownSequence(FatalMessage(event), isRunning /\ ~isProcessing)
              /\ IF worker # Null
                 THEN fatalPending' = TRUE /\ UNCHANGED << exited, exitCode >>
                 ELSE exited' = TRUE /\ exitCode' = 1 /\ UNCHANGED fatalPending
         ELSE /\ lastError' = FatalMessage(event)
              /\ errorNotified' = (isRunning /\ ~isProcessing)
              /\ exited' = TRUE /\ exitCode' = 1
              /\ UNCHANGED << shuttingDown, isRunning, worker, globalListener,
                              observers, shutdownPc, rlClosed, fatalPending, shutdowns >>
    /\ UNCHANGED << configVars, isProcessing, immediates, checkPhase, cycle,
                    active, fileExists >>

-----------------------------------------------------------------------------
(* Service initialisation: initializeServices and initializeGeminiModel    *)

\* main's call of initializeServices is handler 0; the others are 'set-apikey's
HandlerIds == 0..MaxSetApikey

\* the saveEnvSettings calls of 'prompt' and 'debug' that may be in flight
WriteIds == 1..MaxWrites

FreeWrite == [pc |-> "free", settingsToSave |-> << >>]

DefaultPrompt ==
    "Analyze the text and image from this screenshot. Provide a concise summary or answer based on the content."

FreeHandler == [pc |-> "free", force |-> FALSE, fetched |-> FALSE]

NoPicker == [pc |-> "none", shown |-> << >>, modelListPage |-> 0, showMore |-> FALSE]

Range(list) == {list[i] : i \in DOMAIN list}

\* keys typed after 'set-apikey'
ApiKeyInputs == {"key2"}

Max(a, b) == IF a < b THEN b ELSE a

Digits == "0123456789"

IsDigit(c) == \E k \in 1..Len(Digits) : CharAt(Digits, k) = c

DigitValue(c) == (CHOOSE k \in 1..Len(Digits) : CharAt(Digits, k) = c) - 1

\* the last index of the run of digits of s that holds index i
RECURSIVE DigitRunEnd(_, _)
DigitRunEnd(s, i) ==
    IF i < Len(s) /\ IsDigit(CharAt(s, i + 1)) THEN DigitRunEnd(s, i + 1) ELSE i

\* name.match(/(\d+\.?\d*)/)[0], Null without a match: the leftmost run of
\* digits, a dot after it if there is one, and the digits after the dot
MatchVersion(name) ==
    IF \A k \in 1..Len(name) : ~IsDigit(CharAt(name, k)) THEN Null
    ELSE LET i == CHOOSE n \in 1..Len(name) :
                    IsDigit(CharAt(name, n)) /\ \A m \in 1..(n - 1) : ~IsDigit(CharAt(name, m))
             j == DigitRunEnd(name, i)
             k == IF j < Len(name) /\ CharAt(name, j + 1) = "."
                  THEN DigitRunEnd(name, j + 1)
                  ELSE j
         IN  SubSeq(name, i, k)

\* the value of a string of digits
RECURSIVE ParseInt(_)
ParseInt(s) ==
    IF s = "" THEN 0
    ELSE ParseInt(SubSeq(s, 1, Len(s) - 1)) * 10 + DigitValue(CharAt(s, Len(s)))

\* what parseInt returns for a string without a leading number
NaN == -1000

\* parseInt(choiceStr, 10) of the line askQuestion resolves to: leading
\* spaces skipped, then a sign and the leading run of digits
RECURSIVE ParseChoice(_)
ParseChoice(choiceStr) ==
    IF choiceStr # "" /\ CharAt(choiceStr, 1) = " "
    THEN ParseChoice(SubSeq(choiceStr, 2, Len(choiceStr)))
    ELSE LET negative == choiceStr # "" /\ CharAt(choiceStr, 1) = "-"
             digits == IF negative THEN SubSeq(choiceStr, 2, Len(choiceStr)) ELSE choiceStr
         IN  IF digits = "" \/ ~IsDigit(CharAt(digits, 1)) THEN NaN
             ELSE LET n == ParseInt(SubSeq(digits, 1, DigitRunEnd(digits, 1)))
                  IN  IF negative THEN 0 - n ELSE n

\* the digits of a version token before and after its dot
IntDigits(token) == SubSeq(token, 1, DigitRunEnd(token, 1))

FracDigits(token) == SubSeq(token, Len(IntDigits(token)) + 2, Len(token))

\* parseFloat(token) in units of 10^-places
ParseFloat(token, places) ==
    ParseInt(IntDigits(token) \o FracDigits(token)
             \o Repeat("0", places - Len(FracDigits(token))))

\* the order of localeCompare on the characters of model names
Collation == "-.0123456789abcdefghijklmnopqrstuvwxyz"

Rank(c) == CHOOSE k \in 1..Len(Collation) : CharAt(Collation, k) = c

\* a.localeCompare(b): negative, zero or positive
RECURSIVE LocaleCompare(_, _)
LocaleCompare(a, b) ==
    IF a = "" /\ b = "" THEN 0
    ELSE IF a = "" THEN -1
    ELSE IF b = "" THEN 1
    ELSE IF Rank(CharAt(a, 1)) < Rank(CharAt(b, 1)) THEN -1
    ELSE IF Rank(CharAt(a, 1)) > Rank(CharAt(b, 1)) THEN 1
    ELSE LocaleCompare(SubSeq(a, 2, Len(a)), SubSeq(b, 2, Len(b)))

\* the comparator given to sort
CompareModels(a, b) ==
    LET versionA == MatchVersion(a)
        versionB == MatchVersion(b)
        places   == Max(Len(FracDigits(versionA)), Len(FracDigits(versionB)))
    IN  IF versionA # Null /\ versionB # Null
           /\ ParseFloat(versionA, places) # ParseFloat(versionB, places)
        THEN ParseFloat(versionB, places) - ParseFloat(versionA, places)
        ELSE LocaleCompare(a, b)

\* Array.prototype.sort of the engine on an array shorter than its minimum run
\* length: the leading run is found (and reversed if strictly descending),
\* the other elements are placed by binary insertion
RECURSIVE RunEnd(_, _, _)
RunEnd(seq, idx, descending) ==
    IF idx = Len(seq) THEN idx
    ELSE LET order == CompareModels(seq[idx + 1], seq[idx])
         IN  IF (descending /\ order >= 0) \/ (~descending /\ order < 0)
             THEN idx
             ELSE RunEnd(seq, idx + 1, descending)

Reverse(seq) == [k \in 1..Len(seq) |-> seq[Len(seq) + 1 - k]]

RECURSIVE InsertionPoint(_, _, _, _)
InsertionPoint(seq, pivot, left, right) ==
    IF left >= right THEN left
    ELSE LET mid == left + ((right - left) \div 2)
         IN  IF CompareModels(pivot, seq[mid]) < 0
             THEN InsertionPoint(seq, pivot, left, mid)
             ELSE InsertionPoint(seq, pivot, mid + 1, right)

RECURSIVE BinaryInsertionSort(_, _)
BinaryInsertionSort(seq, start) ==
    IF start > Len(seq) THEN seq
    ELSE LET pos == InsertionPoint(seq, seq[start], 1, start)
         IN  BinaryInsertionSort(SubSeq(seq, 1, pos - 1) \o << seq[start] >>
                                 \o SubSeq(seq, pos, start - 1)
                                 \o SubSeq(seq, start + 1, Len(seq)),
                                 start + 1)

SortModels(seq) ==
    IF Len(seq) < 2 THEN seq
    ELSE LET descending == CompareModels(seq[2], seq[1]) < 0
             end        == RunEnd(seq, 2, descending)
             run        == SubSeq(seq, 1, end)
         IN  BinaryInsertionSort((IF descending THEN Reverse(run) ELSE run)
                                 \o SubSeq(seq, end + 1, Len(seq)),
                                 end + 1)

\* the names of parsedData.models, in the order of the response
ApiModelNames ==
    { << "models/gemini-2.0-pro" >>,
      << "models/gemini-1.5-flash", "models/gemini-2.0-pro" >>,
      << "models/gemini-1.5-flash", "models/gemini-pro", "models/text-embedding-004" >>,
      << "models/gemini-1.0-pro", "models/gemini-1.5-flash", "models/gemini-1.5-pro",
         "models/gemini-2.0-flash", "models/gemini-2.0-pro", "models/gemini-2.5-pro" >> }

\* the list fetchAvailableModels resolves to for a 200 response: the prefix
\* "models/" stripped, empty names dropped, the rest sorted
FetchedNames(names) ==
    LET stripped == [k \in DOMAIN names |->
                       IF StartsWith(names[k], "models/")
                       THEN Substring(names[k], 7, Len(names[k]))
                       ELSE names[k]]
    IN  SortModels(SelectSeq(stripped, LAMBDA name : name # ""))

\* lists fetchAvailableModels may resolve to; the empty list is what it
\* resolves to on every failure
ModelLists == { << >> } \cup { FetchedNames(names) : names \in ApiModelNames }

\* getGenerativeModel({ model }) on a client: the instance keeps both
ModelOf(client, name) == client \o "/" \o name

\* the model instance was created from the client of credential `key`
BoundUnder(instance, key) == key # Null /\ StartsWith(instance, key \o "/")

\* a step outside the capture cycle prints err and warn (Null: nothing)
Log(err, warn) ==
    /\ lastError' = err
    /\ errorNotified' = (err # Null /\ isRunning /\ ~isProcessing)
    /\ lastWarn' = warn

\* initializeGeminiModel: the value it leaves in state.model and what it logs;
\* bindOk: getGenerativeModel does not throw
InitializeGeminiModel(client, name, list, bindOk) ==
    IF client = Null
    THEN [model |-> Null, err |-> Null,
          warn |-> "Cannot initialize Gemini model: API client not ready (API key likely missing)."]
    ELSE IF name = ""
    THEN [model |-> Null, err |-> "Cannot initialize Gemini model: No AI model selected.",
          warn |-> Null]
    ELSE IF list # << >> /\ name \notin Range(list)
    THEN [model |-> Null,
          err |-> "Selected model \"" \o name \o "\" is not in the list of fetched available models. Cannot initialize.",
          warn |-> "Available models"]
    ELSE IF ~bindOk
    THEN [model |-> Null, err |-> "Failed to get generative model instance for " \o name,
          warn |-> "Attempted to use model: " \o name]
    ELSE [model |-> ModelOf(client, name), err |-> Null, warn |-> Null]

\* what an initializeServices call reads and writes, beside state.apiKey and
\* state.worker: the state fields, its own position, and what it logs
SvcCtx(id) ==
    [ aiModel |-> aiModel, googleAI |-> googleAI, model |-> model,
      fetchedModels |-> fetchedModels, pc |-> handlers[id].pc,
      force |-> handlers[id].force, fetched |-> handlers[id].fetched,
      err |-> Null, warn |-> Null ]

\* keep the error already logged by the step when the next part logs none
Logged(s, err, warn) ==
    [s EXCEPT !.err = IF err # Null THEN err ELSE @,
              !.warn = IF warn # Null THEN warn ELSE @]

\* geminiInitialized = initializeGeminiModel(), the last statement of the call
BindModel(s, bindOk) ==
    LET r == InitializeGeminiModel(s.googleAI, s.aiModel, s.fetchedModels, bindOk)
    IN  Logged([s EXCEPT !.model = r.model, !.pc = "done"], r.err, r.warn)

\* ClientFailed without `state.model = null`
ClientFailedKeepsModel(s) ==
    [s EXCEPT !.googleAI = Null, !.fetchedModels = << >>,
              !.err = "Gemini client initialization failed",
              !.warn = "Gemini features will be unavailable until a valid API key and model are set.",
              !.pc = "done"]

\* the client could not be created: the catch block of initializeServices
ClientFailed(s) ==
    [s EXCEPT !.googleAI = Null, !.model = Null, !.fetchedModels = << >>,
              !.err = "Gemini client initialization failed",
              !.warn = "Gemini features will be unavailable until a valid API key and model are set.",
              !.pc = "done"]

\* initializeServices from "Initialize Gemini Client" to its next await;
\* clientOk: new GoogleGenerativeAI(state.apiKey) does not throw
GeminiPart(s, clientOk, bindOk) ==
    IF apiKey # Null /\ (s.googleAI = Null \/ s.force)
    THEN IF ~clientOk THEN ClientFailed(s)
         ELSE LET t == [s EXCEPT !.googleAI = apiKey]
              IN  IF t.fetchedModels = << >>
                  THEN [t EXCEPT !.pc = "fetch", !.fetched = TRUE]
                  ELSE BindModel(t, bindOk)
    ELSE IF apiKey = Null
    THEN [s EXCEPT !.googleAI = Null, !.model = Null, !.fetchedModels = << >>,
                   !.pc = "done"]
    ELSE IF s.googleAI # Null /\ s.model # Null /\ ~s.force
    THEN IF s.fetchedModels = << >>
         THEN [s EXCEPT !.pc = "fetchOnly", !.fetched = TRUE]
         ELSE [s EXCEPT !.pc = "done"]
    ELSE IF s.googleAI # Null /\ (s.model = Null \/ s.force)
    THEN BindModel(s, bindOk)
    ELSE [s EXCEPT !.pc = "done"]

\* initializeServices from its entry to its first await
InitializeServices(s, clientOk, bindOk) ==
    IF worker = Null
    THEN [s EXCEPT !.pc = "createWorker"]
    ELSE GeminiPart(s, clientOk, bindOk)

\* initializeServices after `state.fetchedModels = await fetchAvailableModels()`
AfterFetch(s, list, bindOk) ==
    LET t == [s EXCEPT !.fetchedModels = list]
    IN  IF list # << >> /\ t.aiModel \notin Range(list)
        THEN [t EXCEPT !.aiModel = list[1], !.pc = "saveModel",
                       !.warn = "Current model \"" \o s.aiModel \o "\" not found in fetched list. Defaulting to \""
                                \o list[1] \o "\"."]
        ELSE IF list = << >>
        THEN BindModel([t EXCEPT !.err = "Failed to fetch models",
                                 !.warn = "Could not fetch models. Using default \"" \o s.aiModel
                                          \o "\". You may need to set it manually."], bindOk)
        ELSE BindModel(t, bindOk)

\* setupGlobalListener: the previous listener is killed (the observer may
\* survive a kill that throws), then a new one is created
SetupGlobalListener(err, warn) ==
    \E killed \in {"stopped", "threw, observer stopped", "threw, observer alive"},
       created \in BOOLEAN :
         LET had  == globalListener # Null
             left == IF had /\ killed # "threw, observer alive"
                     THEN observers - 1 ELSE observers
         IN  /\ had \/ killed = "stopped"
             /\ globalListener' = (IF created THEN "listener" ELSE Null)
             /\ observers' = (IF created THEN left + 1 ELSE left)
             /\ Log(IF ~created
                    THEN "Failed to initialize global key listener. Hotkey trigger will not work."
                    ELSE IF had /\ killed # "stopped"
                    THEN "Error killing previous listener instance"
                    ELSE err,
                    IF ~created THEN "Falling back to CLI 'capture' command only."
                    ELSE IF had
                    THEN "Attempting to set up global listener again. Killing existing one."
                    ELSE warn)

\* the state fields and the position of handler id are written back; main's
\* call, once returned, goes on to setupGlobalListener()
CommitServices(id, s) ==
    /\ aiModel' = s.aiModel
    /\ googleAI' = s.googleAI
    /\ model' = s.model
    /\ fetchedModels' = s.fetchedModels
    /\ handlers' = [handlers EXCEPT ![id] =
                      IF s.pc = "done" THEN FreeHandler
                      ELSE [pc |-> s.pc, force |-> s.force, fetched |-> s.fetched]]
    /\ IF s.pc = "done" /\ id = 0
       THEN SetupGlobalListener(s.err, s.warn)
       ELSE Log(s.err, s.warn) /\ UNCHANGED << globalListener, observers >>

\* what no step of a configuration handler changes
pipelineVars == << operatingSystem, isRunning, isProcessing, immediates, checkPhase,
                   cycle, active, fileExists, shuttingDown, shutdownPc, rlClosed,
                   exited, exitCode, fatalPending, shutdowns, settingsVars >>

\* `state.worker = await Tesseract.createWorker(...)` settles
CreateWorkerDone(id) ==
    /\ Turn /\ handlers[id].pc = "createWorker"
    /\ \E ok \in BOOLEAN, clientOk \in BOOLEAN, bindOk \in BOOLEAN :
         /\ worker' = (IF ok THEN "worker" ELSE worker)
         /\ workersCreated' = (IF ok THEN workersCreated + 1 ELSE workersCreated)
         /\ CommitServices(id, GeminiPart(
                IF ok THEN SvcCtx(id)
                ELSE [SvcCtx(id) EXCEPT !.err = "Tesseract initialization failed"],
                clientOk, bindOk))
    /\ UNCHANGED << pipelineVars, apiKey, triggerKey, picker, saves >>

\* `state.fetchedModels = await fetchAvailableModels()` of the first branch settles
FetchDone(id) ==
    /\ Turn /\ handlers[id].pc = "fetch"
    /\ \E list \in ModelLists, bindOk \in BOOLEAN :
         CommitServices(id, AfterFetch(SvcCtx(id), list, bindOk))
    /\ UNCHANGED << pipelineVars, apiKey, triggerKey, picker, saves, worker,
                    workersCreated >>

\* `await saveEnvSettings()` after the reselection settles
SaveModelDone(id) ==
    /\ Turn /\ handlers[id].pc = "saveModel"
    /\ \E ok \in BOOLEAN, bindOk \in BOOLEAN :
         CommitServices(id, BindModel(
             IF ok THEN SvcCtx(id)
             ELSE [SvcCtx(id) EXCEPT !.err = "Failed to save settings to .env file"],
             bindOk))
    /\ UNCHANGED << pipelineVars, apiKey, triggerKey, picker, saves, worker,
                    workersCreated >>

\* the fetch of the "already initialized" branch settles
FetchOnlyDone(id) ==
    /\ Turn /\ handlers[id].pc = "fetchOnly"
    /\ \E list \in ModelLists :
         CommitServices(id, [SvcCtx(id) EXCEPT
             !.fetchedModels = list, !.pc = "done",
             !.err = IF list = << >> THEN "Failed to fetch models" ELSE Null])
    /\ UNCHANGED << pipelineVars, apiKey, triggerKey, picker, saves, worker,
                    workersCreated >>

-----------------------------------------------------------------------------
(* The commands 'set-apikey', 'set-model' and 'set-trigger'                *)

\* the line 'set-apikey <value>': the key is replaced, then saveEnvSettings
SetApikeyCommand ==
    /\ Turn /\ ~rlClosed /\ picker.pc # "ask"
    /\ \E id \in HandlerIds \ {0}, value \in ApiKeyInputs :
         /\ handlers[id].pc = "free"
         /\ IF LineIgnored("set-apikey")
            THEN UNCHANGED << apiKey, handlers >>
            ELSE /\ apiKey' = value
                 /\ handlers' = [handlers EXCEPT ![id] =
                                   [pc |-> "saveKey", force |-> TRUE, fetched |-> FALSE]]
    /\ NoLog
    /\ UNCHANGED << pipelineVars, aiModel, googleAI, model, fetchedModels, triggerKey,
                    picker, saves, worker, workersCreated, globalListener, observers >>

\* `await saveEnvSettings()` of 'set-apikey' settles: initializeServices(true)
SaveKeyDone(id) ==
    /\ Turn /\ handlers[id].pc = "saveKey"
    /\ \E ok \in BOOLEAN, clientOk \in BOOLEAN, bindOk \in BOOLEAN :
         CommitServices(id, InitializeServices(
             IF ok THEN SvcCtx(id)
             ELSE [SvcCtx(id) EXCEPT !.err = "Failed to save settings to .env file"],
             clientOk, bindOk))
    /\ UNCHANGED << pipelineVars, apiKey, triggerKey, picker, saves, worker,
                    workersCreated >>

\* modelsToShow of the first page
EndIndex(list, page) == Min(page * MODELS_PER_PAGE + MODELS_PER_PAGE, Len(list))
ModelsToShow(list, page) == SubSeq(list, page * MODELS_PER_PAGE + 1, EndIndex(list, page))

\* the handler of 'set-model' suspended at an await other than the question
Waiting(pc, page) == [pc |-> pc, shown |-> << >>, modelListPage |-> page, showMore |-> FALSE]

\* (variant) every turn of the loop starts again from the first page
AskFirstPage(page) ==
    IF isRunning
    THEN [pc |-> "ask", shown |-> ModelsToShow(fetchedModels', 0), modelListPage |-> 0,
          showMore |-> EndIndex(fetchedModels', 0) < Len(fetchedModels')]
    ELSE NoPicker

\* one turn of the selection loop up to `await askQuestion(...)`
AskPage(page) == IF isRunning
                 THEN [pc |-> "ask", shown |-> ModelsToShow(fetchedModels', page),
                       modelListPage |-> page,
                       showMore |-> EndIndex(fetchedModels', page) < Len(fetchedModels')]
                 ELSE NoPicker

configKept == << apiKey, aiModel, googleAI, model, triggerKey, handlers, saves,
                 worker, workersCreated, globalListener, observers >>

\* the line 'set-model'
SetModelCommand ==
    /\ Turn /\ ~rlClosed /\ picker.pc = "none"
    /\ UNCHANGED fetchedModels
    /\ IF LineIgnored("set-model")
       THEN NoLog /\ UNCHANGED picker
       ELSE IF apiKey = Null \/ googleAI = Null
       THEN /\ Log("Cannot set model: API Key not set or Gemini client not initialized.",
                   "Use 'set-apikey' first.")
            /\ UNCHANGED picker
       ELSE IF fetchedModels = << >>
       THEN NoLog /\ picker' = Waiting("fetch", 0)
       ELSE NoLog /\ picker' = AskPage(0)
    /\ UNCHANGED << pipelineVars, configKept >>

\* `state.fetchedModels = await fetchAvailableModels()` of 'set-model' settles
PickerFetchDone ==
    /\ Turn /\ picker.pc = "fetch"
    /\ \E list \in ModelLists :
         /\ fetchedModels' = list
         /\ IF list = << >>
            THEN /\ Log("Failed to fetch or no models available from the API.",
                        "Cannot select a model. Check API key and network connection.")
                 /\ picker' = NoPicker
            ELSE NoLog /\ picker' = AskPage(0)
    /\ UNCHANGED << pipelineVars, configKept >>

\* lines typed at the question: cancel, the models and options of a page,
\* numbers past the last option of a page, and lines that are no number
ChoiceInputs == {"0", "1", "2", "3", "4", "5", "6", "7", "-1", "2nd", "next", " 1"}

\* `const choice = parseInt(choiceStr, 10)` for each of these lines
ChoiceOf == [choiceStr \in ChoiceInputs |-> ParseChoice(choiceStr)]

\* the answer typed at "Enter the number of the model or option: "
Answer(choiceStr, bindOk) ==
    /\ Turn /\ ~rlClosed /\ picker.pc = "ask"
    /\ UNCHANGED fetchedModels
    /\   LET choice == ChoiceOf[choiceStr]
             numModelsOnPage == Len(picker.shown)
             showMoreOptionNumber == IF picker.showMore THEN numModelsOnPage + 1 ELSE 0
             goPreviousOptionNumber ==
                 IF picker.modelListPage = 0 THEN 0
                 ELSE IF picker.showMore THEN numModelsOnPage + 2 ELSE numModelsOnPage + 1
         IN
         IF choice = NaN
         THEN /\ Log("Invalid input. Please enter a number.", Null)
              /\ picker' = AskPage(picker.modelListPage)
              /\ UNCHANGED << aiModel, model >>
         ELSE IF choice = 0
         THEN NoLog /\ picker' = NoPicker /\ UNCHANGED << aiModel, model >>
         ELSE IF choice = showMoreOptionNumber
         THEN /\ NoLog /\ picker' = Waiting("delay", picker.modelListPage + 1)
              /\ UNCHANGED << aiModel, model >>
         ELSE IF choice = goPreviousOptionNumber
         THEN /\ NoLog /\ picker' = Waiting("delay", picker.modelListPage - 1)
              /\ UNCHANGED << aiModel, model >>
         ELSE IF choice > 0 /\ choice <= numModelsOnPage
         THEN IF picker.shown[choice] # aiModel
              THEN LET r == InitializeGeminiModel(googleAI, picker.shown[choice],
                                                  fetchedModels, bindOk)
                   IN  /\ aiModel' = picker.shown[choice]
                       /\ model' = r.model
                       /\ IF r.model # Null
                          THEN Log(Null, Null) /\ picker' = Waiting("save", 0)
                          ELSE /\ Log("Failed to initialize model " \o picker.shown[choice]
                                      \o ". Selection failed. Check logs.", r.warn)
                               /\ picker' = Waiting("delay", picker.modelListPage)
              ELSE NoLog /\ picker' = NoPicker /\ UNCHANGED << aiModel, model >>
         ELSE /\ Log("Invalid choice number.", Null)
              /\ picker' = Waiting("delay", picker.modelListPage)
              /\ UNCHANGED << aiModel, model >>
    /\ UNCHANGED << pipelineVars, apiKey, googleAI, triggerKey, handlers, saves, worker,
                    workersCreated, globalListener, observers >>

PickerAnswer == \E choiceStr \in ChoiceInputs, bindOk \in BOOLEAN : Answer(choiceStr, bindOk)

\* `await saveEnvSettings()` after a successful selection settles
PickerSaveDone ==
    /\ Turn /\ picker.pc = "save"
    /\ picker' = NoPicker
    /\ \E ok \in BOOLEAN :
         Log(IF ok THEN Null ELSE "Failed to save settings to .env file", Null)
    /\ UNCHANGED << pipelineVars, configKept, fetchedModels >>

\* the 50 ms timer of the loop fires: the page is shown again
PickerDelayDone ==
    /\ Turn /\ picker.pc = "delay" /\ immediates = 0
    /\ UNCHANGED fetchedModels
    /\ picker' = AskPage(picker.modelListPage)
    /\ NoLog
    /\ UNCHANGED << pipelineVars, configKept >>

\* combinations typed after 'set-trigger'
TriggerInputs ==
    {"CTRL+SHIFT+C", "ALT+SHIFT+P", "cmd + p", "+", "shift+ctrl+c", "ctrl+foo",
     "hyper+shift+k"}

LowerCase == << "a", "b", "c", "d", "e", "f", "g", "h", "i", "j", "k", "l", "m",
                "n", "o", "p", "q", "r", "s", "t", "u", "v", "w", "x", "y", "z" >>

UpperCase == << "A", "B", "C", "D", "E", "F", "G", "H", "I", "J", "K", "L", "M",
                "N", "O", "P", "Q", "R", "S", "T", "U", "V", "W", "X", "Y", "Z" >>

\* String.prototype.toUpperCase
RECURSIVE ToUpperCase(_)
ToUpperCase(s) ==
    IF s = "" THEN ""
    ELSE LET c == CharAt(s, 1)
             u == IF \E k \in DOMAIN LowerCase : LowerCase[k] = c
                  THEN UpperCase[CHOOSE k \in DOMAIN LowerCase : LowerCase[k] = c]
                  ELSE c
         IN  u \o ToUpperCase(SubSeq(s, 2, Len(s)))

\* String.prototype.split on a one-character separator
RECURSIVE Split(_, _)
Split(s, sep) ==
    IF \A k \in 1..Len(s) : CharAt(s, k) # sep THEN << s >>
    ELSE LET k == CHOOSE n \in 1..Len(s) :
                    CharAt(s, n) = sep /\ \A m \in 1..(n - 1) : CharAt(s, m) # sep
         IN  << SubSeq(s, 1, k - 1) >> \o Split(SubSeq(s, k + 1, Len(s)), sep)

\* String.prototype.trim (spaces)
RECURSIVE Trim(_)
Trim(s) ==
    IF s = "" THEN ""
    ELSE IF CharAt(s, 1) = " " THEN Trim(SubSeq(s, 2, Len(s)))
    ELSE IF CharAt(s, Len(s)) = " " THEN Trim(SubSeq(s, 1, Len(s) - 1))
    ELSE s

\* TriggerParts keeping the letter case as typed
TriggerPartsAsTyped(keyString) ==
    LET raw == Split(keyString, "+")
    IN  SelectSeq([k \in DOMAIN raw |-> Trim(raw[k])], LAMBDA part : part # "")

\* keyString.toUpperCase().split('+').map(p => p.trim()).filter(p => p)
TriggerParts(keyString) ==
    LET raw == Split(ToUpperCase(keyString), "+")
    IN  SelectSeq([k \in DOMAIN raw |-> Trim(raw[k])], LAMBDA part : part # "")

\* allowedSpecialKeys
AllowedSpecialKeys ==
    {"F1", "F2", "F3", "F4", "F5", "F6", "F7", "F8", "F9", "F10", "F11", "F12",
     "SPACE", "ENTER", "TAB", "ESCAPE", "DELETE", "BACKSPACE", "UP ARROW",
     "DOWN ARROW", "LEFT ARROW", "RIGHT ARROW", "PAGE UP", "PAGE DOWN", "HOME",
     "END", "INSERT"}

\* /^[A-Z0-9]$/.test(part)
IsAlphanumeric(part) ==
    /\ Len(part) = 1
    /\ IsDigit(part) \/ \E k \in DOMAIN UpperCase : UpperCase[k] = part

RecognizedModifiers ==
    {"CTRL", "CONTROL", "SHIFT", "ALT", "META", "CMD", "COMMAND", "WIN", "WINDOWS"}

\* the warnings parseTriggerKey logs, in order: the one about the key name,
\* then one for each unrecognized token before it
ParseWarnings(keyString) ==
    LET parts == TriggerParts(keyString)
        name  == parts[Len(parts)]
        mods  == SubSeq(parts, 1, Len(parts) - 1)
        nameWarning ==
            IF Len(name) > 1 /\ name \notin AllowedSpecialKeys
            THEN << "Possibly invalid key name detected: \"" \o name \o "\"." >>
            ELSE IF Len(name) = 1 /\ ~IsAlphanumeric(name)
            THEN << "Possibly invalid single character key name detected: \"" \o name \o "\"." >>
            ELSE << >>
        unrecognized == SelectSeq(mods, LAMBDA part : part \notin RecognizedModifiers)
    IN  nameWarning \o [k \in DOMAIN unrecognized |->
                          "Unrecognized modifier: \"" \o unrecognized[k] \o "\". Ignoring."]

\* the last warning of parseTriggerKey, Null if it logs none
LastParseWarning(keyString) ==
    LET warnings == ParseWarnings(keyString)
    IN  IF warnings = << >> THEN Null ELSE warnings[Len(warnings)]

\* ParseTriggerKey taking the first token for the key name
ParseTriggerKeyFirstToken(keyString) ==
    LET parts == TriggerParts(keyString)
        mods  == {parts[k] : k \in 2..Len(parts)}
    IN  [ name  |-> parts[1],
          ctrl  |-> mods \cap {"CTRL", "CONTROL"} # {},
          shift |-> "SHIFT" \in mods,
          alt   |-> "ALT" \in mods,
          meta  |-> mods \cap {"META", "CMD", "COMMAND", "WIN", "WINDOWS"} # {} ]

\* parseTriggerKey on a combination with at least one token: the last token
\* is the key name, the tokens before it set the modifiers
ParseTriggerKey(keyString) ==
    LET parts == TriggerParts(keyString)
        mods  == {parts[k] : k \in 1..(Len(parts) - 1)}
    IN  [ name  |-> parts[Len(parts)],
          ctrl  |-> mods \cap {"CTRL", "CONTROL"} # {},
          shift |-> "SHIFT" \in mods,
          alt   |-> "ALT" \in mods,
          meta  |-> mods \cap {"META", "CMD", "COMMAND", "WIN", "WINDOWS"} # {} ]

\* the line 'set-trigger <keyString>': the combination is armed, the listener
\* set up again, then saveEnvSettings; parseTriggerKey returns null when the
\* string has no token
SetTrigger(keyString) ==
    /\ Turn /\ ~rlClosed /\ picker.pc # "ask"
    /\ saves < MaxSaves /\ observers < MaxObservers
    /\ IF LineIgnored("set-trigger")
       THEN NoLog /\ UNCHANGED << triggerKey, globalListener, observers, saves >>
       ELSE IF TriggerParts(keyString) = << >>
       THEN /\ Log("Invalid trigger format: \"" \o keyString \o "\". Example: CTRL+SHIFT+K", Null)
            /\ UNCHANGED << triggerKey, globalListener, observers, saves >>
       ELSE /\ triggerKey' = ParseTriggerKey(keyString)
            /\ SetupGlobalListener(Null, LastParseWarning(keyString))
            /\ saves' = saves + 1
    /\ UNCHANGED << pipelineVars, apiKey, aiModel, googleAI, model, fetchedModels,
                    handlers, picker, worker, workersCreated >>

SetTriggerCommand == \E keyString \in TriggerInputs : SetTrigger(keyString)

\* `await saveEnvSettings()` of a 'set-trigger' handler settles
SettingsSaved ==
    /\ Turn /\ saves > 0
    /\ saves' = saves - 1
    /\ \E ok \in BOOLEAN :
         Log(IF ok THEN Null ELSE "Failed to save settings to .env file", Null)
    /\ UNCHANGED << pipelineVars, apiKey, aiModel, googleAI, model, fetchedModels,
                    triggerKey, handlers, picker, worker, workersCreated,
                    globalListener, observers >>

-----------------------------------------------------------------------------
(* The program after main() has finished initialising                      *)

DefaultTrigger ==
    [name |-> "C", ctrl |-> TRUE, shift |-> TRUE, alt |-> FALSE, meta |-> FALSE]

DefaultModel == "gemini-1.5-flash"

\* (apiKey, googleAI, model) as initializeServices may leave them at startup:
\* no key; client and model ready; model not bound; client not created
StartupServices ==
    { << Null, Null, Null >>,
      << "key1", "key1", ModelOf("key1", DefaultModel) >>,
      << "key1", "key1", Null >>,
      << "key1", Null, Null >> }

\* every combination parseTriggerKey or the settings file may arm
Triggers ==
    [name : KeyNames, ctrl : BOOLEAN, shift : BOOLEAN, alt : BOOLEAN, meta : BOOLEAN]

InitProgram(triggers) ==
    /\ operatingSystem \in {"darwin", "linux"}
    /\ isRunning = TRUE
    /\ isProcessing = FALSE
    /\ \E s \in StartupServices : apiKey = s[1] /\ googleAI = s[2] /\ model = s[3]
    /\ aiModel = DefaultModel
    /\ worker \in {Null, "worker"}
    /\ triggerKey \in triggers
    /\ \E up \in BOOLEAN :
         /\ globalListener = (IF up THEN "listener" ELSE Null)
         /\ observers = (IF up THEN 1 ELSE 0)
    /\ immediates = 0
    /\ checkPhase = FALSE
    /\ cycle = IdleCycle
    /\ active = 0
    /\ fileExists = FALSE
    /\ lastWarn = Null
    /\ lastError = Null
    /\ errorNotified = FALSE
    /\ shuttingDown = FALSE
    /\ shutdownPc = "none"
    /\ shutdowns = 0
    /\ rlClosed = FALSE
    /\ exited = FALSE
    /\ exitCode = 0
    /\ fatalPending = FALSE
    /\ fetchedModels = << >>
    /\ handlers = [id \in HandlerIds |-> FreeHandler]
    /\ picker = NoPicker
    /\ workersCreated = (IF worker = Null THEN 0 ELSE 1)
    /\ saves = 0

\* the default prompt and debug mode, no saveEnvSettings call in flight
InitSettings ==
    /\ customPrompt = DefaultPrompt
    /\ debugMode = FALSE
    /\ writes = [id \in WriteIds |-> FreeWrite]
    /\ saveFailed = FALSE

\* main() found no .env file
InitWith(triggers) == InitProgram(triggers) /\ InitSettings /\ envFile = << >>

Init == InitWith({DefaultTrigger})

Next ==
    \/ ListDisplaysDone
    \/ ScreenshotDone
    \/ RecognizeDone
    \/ ReadImageDone
    \/ GenerateDone
    \/ AccessDone
    \/ UnlinkDone
    \/ KeyEvent
    \/ RunImmediate
    \/ CaptureCommand
    \/ QuitCommand
    \/ ExitSignal
    \/ TerminateDone
    \/ ExitTimer

Spec == Init /\ [][Next]_vars

\* every combination armed, with services that refuse the capture, beside Init
InitKeys ==
    \/ Init
    \/ /\ InitWith(Triggers)
       /\ apiKey = Null /\ worker # Null /\ globalListener # Null

SpecKeys == InitKeys /\ [][Next]_vars

\* every awaited external step settles, and the event loop runs its immediates
Fairness ==
    /\ WF_vars(ListDisplaysDone)
    /\ WF_vars(ScreenshotDone)
    /\ WF_vars(RecognizeDone)
    /\ WF_vars(ReadImageDone)
    /\ WF_vars(GenerateDone)
    /\ WF_vars(AccessDone)
    /\ WF_vars(UnlinkDone)
    /\ WF_vars(RunImmediate)

LiveSpec == Spec /\ Fairness

\* the program of Spec with fatal errors reaching the process-level handlers
NextFatal == Next \/ FatalError

SpecFatal == Init /\ [][NextFatal]_vars

\* worker.terminate() settles, and the event loop runs its immediates
FairnessFatal == WF_vars(TerminateDone) /\ WF_vars(RunImmediate)

LiveSpecFatal == SpecFatal /\ FairnessFatal

\* every way shutdown is requested: commands, signals, fatal errors, end of input
NextShutdown == NextFatal \/ ReadlineClose

SpecShutdown == Init /\ [][NextShutdown]_vars

-----------------------------------------------------------------------------
(* The program from main()'s first await, with the configuration commands  *)

\* main() has loaded the settings and called initializeServices(), which
\* awaits the creation of the worker
InitConfig ==
    /\ operatingSystem = "linux"
    /\ isRunning = TRUE
    /\ isProcessing = FALSE
    /\ apiKey \in {Null, "key1"}
    /\ googleAI = Null
    /\ model = Null
    /\ aiModel = DefaultModel
    /\ worker = Null
    /\ triggerKey = DefaultTrigger
    /\ globalListener = Null
    /\ observers = 0
    /\ immediates = 0
    /\ checkPhase = FALSE
    /\ cycle = IdleCycle
    /\ active = 0
    /\ fileExists = FALSE
    /\ lastWarn = Null
    /\ lastError = Null
    /\ errorNotified = FALSE
    /\ shuttingDown = FALSE
    /\ shutdownPc = "none"
    /\ shutdowns = 0
    /\ rlClosed = FALSE
    /\ exited = FALSE
    /\ exitCode = 0
    /\ fatalPending = FALSE
    /\ fetchedModels = << >>
    /\ handlers = [id \in HandlerIds |->
                     IF id = 0 THEN [pc |-> "createWorker", force |-> FALSE, fetched |-> FALSE]
                     ELSE FreeHandler]
    /\ picker = NoPicker
    /\ workersCreated = 0
    /\ saves = 0
    /\ InitSettings
    /\ envFile = << >>

NextServices ==
    \/ \E id \in HandlerIds : CreateWorkerDone(id)
    \/ \E id \in HandlerIds : FetchDone(id)
    \/ \E id \in HandlerIds : SaveModelDone(id)
    \/ \E id \in HandlerIds : FetchOnlyDone(id)
    \/ \E id \in HandlerIds : SaveKeyDone(id)
    \/ SetApikeyCommand
    \/ SetModelCommand
    \/ PickerFetchDone
    \/ PickerAnswer
    \/ PickerSaveDone
    \/ PickerDelayDone

SpecServices == InitConfig /\ [][NextServices]_vars

\* the program after main(), with the command 'set-apikey' beside the
\* capture cycle
InitRekey == Init /\ operatingSystem = "linux" /\ globalListener # Null

NextRekey ==
    \/ SetApikeyCommand
    \/ \E id \in HandlerIds : SaveKeyDone(id)
    \/ \E id \in HandlerIds : CreateWorkerDone(id)
    \/ \E id \in HandlerIds : FetchDone(id)
    \/ \E id \in HandlerIds : SaveModelDone(id)
    \/ CaptureCommand
    \/ ListDisplaysDone
    \/ ScreenshotDone
    \/ RecognizeDone
    \/ ReadImageDone
    \/ GenerateDone
    \/ AccessDone
    \/ UnlinkDone

SpecRekey == InitRekey /\ [][NextRekey]_vars

\* the program after main(), refusing captures for want of an API key, with
\* the command 'set-trigger'
InitTrigger == Init /\ apiKey = Null

NextTrigger ==
    \/ SetTriggerCommand
    \/ SettingsSaved
    \/ KeyEvent
    \/ RunImmediate
    \/ QuitCommand
    \/ ExitSignal
    \/ TerminateDone
    \/ ExitTimer

SpecTrigger == InitTrigger /\ [][NextTrigger]_vars

-----------------------------------------------------------------------------
(* saveEnvSettings: the commands 'prompt' and 'debug' and the file they write *)

\* settingsToSave of saveEnvSettings for the given in-memory settings
SettingsToSave(key, modelName, prompt, debug, trigger) ==
    [ GEMINI_API_KEY |-> IF key = Null THEN "" ELSE key,
      AI_MODEL       |-> modelName,
      CUSTOM_PROMPT  |-> prompt,
      DEBUG_MODE     |-> IF debug THEN "true" ELSE "false",
      TRIGGER_KEY    |-> trigger ]

\* what neither command nor a step of saveEnvSettings changes
saveKept == << operatingSystem, isRunning, isProcessing, apiKey, aiModel, googleAI,
               model, worker, triggerKey, globalListener, observers, immediates,
               checkPhase, cycle, active, fileExists, shuttingDown, shutdownPc,
               rlClosed, exited, exitCode, fatalPending, fetchedModels, handlers,
               picker, workersCreated, saves, shutdowns >>

\* saveEnvSettings up to its first await: the settings are copied, then the
\* file is read if it exists and written at once if it does not
StartSave(id, prompt, debug) ==
    writes' = [writes EXCEPT ![id] =
                 [pc |-> IF envFile # << >> THEN "read" ELSE "write",
                  settingsToSave |-> SettingsToSave(apiKey, aiModel, prompt, debug,
                                                    triggerKey)]]

\* the call slot a new saveEnvSettings call takes
FreeWriteId == CHOOSE id \in WriteIds :
                  writes[id].pc = "free" /\ \A other \in 1..(id - 1) : writes[other].pc # "free"

\* the line 'debug'
DebugCommand ==
    /\ Turn /\ ~rlClosed /\ picker.pc # "ask"
    /\ \E id \in WriteIds : writes[id].pc = "free"
    /\ NoLog
    /\ IF LineIgnored("debug")
       THEN UNCHANGED << debugMode, writes >>
       ELSE debugMode' = ~debugMode /\ StartSave(FreeWriteId, customPrompt, ~debugMode)
    /\ UNCHANGED << saveKept, customPrompt, envFile, saveFailed >>

\* texts typed after 'prompt'; the empty one is the command without a value
PromptInputs == {"", "Summarize the screenshot."}

\* the line 'prompt <value>'
PromptCommand ==
    /\ Turn /\ ~rlClosed /\ picker.pc # "ask"
    /\ \E id \in WriteIds : writes[id].pc = "free"
    /\ NoLog
    /\ \E value \in PromptInputs :
         IF LineIgnored("prompt") \/ value = ""
         THEN UNCHANGED << customPrompt, writes >>
         ELSE customPrompt' = value /\ StartSave(FreeWriteId, value, debugMode)
    /\ UNCHANGED << saveKept, debugMode, envFile, saveFailed >>

\* `await fs.readFile(ENV_PATH)` of a saveEnvSettings call settles; every key
\* read is overwritten by settingsToSave in the merge
ReadFileDone(id) ==
    /\ Turn /\ writes[id].pc = "read"
    /\ \E ok \in BOOLEAN :
         IF ok
         THEN /\ writes' = [writes EXCEPT ![id].pc = "write"]
              /\ NoLog /\ UNCHANGED saveFailed
         ELSE /\ writes' = [writes EXCEPT ![id] = FreeWrite]
              /\ Log("Failed to save settings to .env file", Null)
              /\ saveFailed' = TRUE
    /\ UNCHANGED << saveKept, customPrompt, debugMode, envFile >>

\* `await fs.writeFile(ENV_PATH, fileContent)` of a saveEnvSettings call settles
WriteFileDone(id) ==
    /\ Turn /\ writes[id].pc = "write"
    /\ writes' = [writes EXCEPT ![id] = FreeWrite]
    /\ \E ok \in BOOLEAN :
         IF ok
         THEN /\ envFile' = << writes[id].settingsToSave >>
              /\ NoLog /\ UNCHANGED saveFailed
         ELSE /\ Log("Failed to save settings to .env file", Null)
              /\ saveFailed' = TRUE
              /\ UNCHANGED envFile
    /\ UNCHANGED << saveKept, customPrompt, debugMode >>

\* main() has finished on linux with the worker and the listener up; the
\* .env file is absent or holds the settings loaded from it
InitSave ==
    /\ InitProgram({DefaultTrigger})
    /\ operatingSystem = "linux" /\ worker # Null /\ globalListener # Null
    /\ InitSettings
    /\ envFile \in { << >>,
                     << SettingsToSave(apiKey, aiModel, customPrompt, debugMode, triggerKey) >> }

NextSave ==
    \/ DebugCommand
    \/ PromptCommand
    \/ \E id \in WriteIds : ReadFileDone(id)
    \/ \E id \in WriteIds : WriteFileDone(id)

SpecSave == InitSave /\ [][NextSave]_vars

-----------------------------------------------------------------------------
(* Properties                                                              *)

\* the last handleCapture call has finished its finally block
CycleEnded == cycle.pc = "idle" /\ cycle.outcome \in {"success", "failed"}

\* C1: at most one capture cycle is active at a time, under any interleaving
\* of hotkey triggers, capture commands and step completions: the number of
\* handleCapture calls in flight never exceeds one, and it is one exactly
\* while isProcessing is set and a pipeline step is awaited.
C1_AtMostOneCycle ==
    /\ active <= 1
    /\ (active = 1) <=> isProcessing
    /\ (active = 1) <=> (cycle.pc # "idle")

\* a second handleCapture call found isProcessing set while a cycle was in flight
C1_Witness ==
    /\ active = 1
    /\ lastWarn = "Already processing. Ignoring trigger from hotkey."

\* C2: every accepted cycle eventually clears isProcessing, whichever step
\* fails, when every awaited step settles (unless the process exits first).
C2_BusyEventuallyReleased == isProcessing ~> (~isProcessing \/ exited)

\* a cycle whose screenshot failed and whose deletion failed has released the lock
C2_Witness ==
    /\ CycleEnded /\ ~isProcessing /\ ~exited
    /\ cycle.outcome = "failed" /\ cycle.cleanup = "failed"

\* C3 as claimed: whenever a cycle has ended, the screenshot file is absent.
C3_FileAbsentAfterCycle == CycleEnded => ~fileExists

\* C3 as amended: whenever a cycle has ended, the screenshot file is absent
\* unless the deletion itself (fs.access or fs.unlink) failed with an error
\* other than ENOENT.
C3_FileAbsentUnlessDeleteFailed ==
    CycleEnded => (~fileExists \/ cycle.cleanup = "failed")

\* a failed cycle has ended with its screenshot deleted
C3_Witness ==
    /\ CycleEnded /\ cycle.outcome = "failed"
    /\ cycle.cleanup = "deleted" /\ ~fileExists

\* a step in which handleCapture is called (by the check phase or by 'capture')
HandleCaptureCalled ==
    RunImmediate \/ (CaptureCommand /\ ~LineIgnored("capture"))

\* C4: a handleCapture call made while no cycle is active and the API key, the
\* client, the bound model or the OCR worker is missing is refused with a
\* reported error: no step is started, the screenshot file is untouched and
\* isProcessing stays false.
C4_RefusedWhenNotReady ==
    [][ ( /\ HandleCaptureCalled
          /\ ~isProcessing
          /\ (apiKey = Null \/ googleAI = Null \/ model = Null \/ worker = Null) )
        => ( /\ ~isProcessing'
             /\ active' = 0
             /\ cycle' = cycle
             /\ fileExists' = fileExists
             /\ lastError' \in
                  { "Cannot capture: Gemini API Key or Model not configured/initialized.",
                    "Cannot capture: Tesseract worker not initialized." } ) ]_vars

\* a capture was refused because the client is ready but no model is bound
C4_Witness ==
    /\ apiKey # Null /\ googleAI # Null /\ model = Null /\ worker # Null
    /\ lastError = "Cannot capture: Gemini API Key or Model not configured/initialized."
    /\ ~isProcessing /\ cycle.pc = "idle"

\* performOCR returned one of its two failure markers
OcrFailed == cycle.ocrText \in {OCR_NOT_READY, OCR_FAILED}

\* queryGemini has been entered by the cycle
QueryEntered ==
    \/ cycle.pc \in {"readImage", "generateContent"}
    \/ cycle.geminiResponse # Null
    \/ cycle.error # Null

\* C5 as claimed: when the OCR step fails, the cycle still performs the AI
\* query and the OCR-text part sent to the AI is exactly the placeholder
\* "(No text detected by OCR)".
C5_PlaceholderOnOcrFailure ==
    OcrFailed =>
        /\ QueryEntered
        /\ cycle.ocrPart # Null => cycle.ocrPart = OCR_PLACEHOLDER

\* queryGemini returned a failure string: every non-failure is a valid text
AiFailed ==
    cycle.geminiResponse # Null /\ cycle.geminiResponse \notin ResponseTexts

\* C6: when the AI step of a cycle returns a failure (not ready, no
\* candidates, empty text, API error), no 'AI Helper Result' notification is
\* sent and nothing is printed as result, the failure is the terminal error of
\* the cycle, and the finally block still runs: once the cycle has ended
\* isProcessing is clear and the screenshot is deleted (or was absent, or the
\* deletion itself failed).
C6_AiFailureAborts ==
    AiFailed =>
        /\ cycle.notified = << >>
        /\ cycle.output = Null
        /\ cycle.outcome = "failed"
        /\ cycle.error = Substring(cycle.geminiResponse, 2, Len(cycle.geminiResponse))
        /\ cycle.pc \in {"access", "unlink", "idle"}
        /\ cycle.pc = "idle" =>
             /\ ~isProcessing
             /\ cycle.cleanup \in {"deleted", "absent", "failed"}
             /\ cycle.cleanup # "failed" => ~fileExists

\* a cycle whose AI response had no candidates has ended, its screenshot deleted
C6_Witness ==
    /\ CycleEnded /\ ~isProcessing /\ ~fileExists /\ cycle.cleanup = "deleted"
    /\ cycle.error = "Error: Gemini response blocked, empty, or incomplete. Reason: SAFETY."
    /\ cycle.notified = << >>

\* C7 as claimed: whenever the screenshot succeeds and the AI step produces a
\* valid non-empty text, whatever its content, the Notifier is invoked exactly
\* once with the first 256 characters at most of that text and the full text
\* is printed (the notifier itself not failing).
C7_ValidResponseNotified ==
    ( /\ cycle.geminiResponse \in ResponseTexts
      /\ cycle.error # "notifier failed" )
    => /\ cycle.notified = << Substring(cycle.geminiResponse, 0, NotifyMax) >>
       /\ cycle.output = cycle.geminiResponse

\* the observed event carries the combination's key name and holds each of
\* ctrl, shift, alt and meta exactly when the combination requires it
ExactMatch(ev) ==
    /\ ev.name = triggerKey.name
    /\ ev.ctrl = triggerKey.ctrl
    /\ ev.shift = triggerKey.shift
    /\ ev.alt = triggerKey.alt
    /\ ev.meta = triggerKey.meta

\* as ExactMatch, except that the required ctrl is compared with "ctrl held",
\* or on darwin with "ctrl or meta held"
PlatformMatch(ev) ==
    /\ ev.name = triggerKey.name
    /\ triggerKey.ctrl = (ev.ctrl \/ (operatingSystem = "darwin" /\ ev.meta))
    /\ ev.shift = triggerKey.shift
    /\ ev.alt = triggerKey.alt
    /\ ev.meta = triggerKey.meta

\* the listener callback runs on key-down event ev while running and idle
EvaluatedKeyDown(ev) ==
    /\ ev.state = "DOWN" /\ isRunning /\ ~isProcessing
    /\ ListenerCallback(ev)

C9_NoEnqueueWhenIgnored ==
    [][ immediates' > immediates =>
          /\ isRunning /\ ~isProcessing /\ observers > 0
          /\ \A ev \in Events : ListenerCallback(ev) => ev.state = "DOWN" ]_vars

\* an observer is alive and delivers events while a cycle is in flight
C9_Witness ==
    /\ observers > 0 /\ isProcessing /\ isRunning
    /\ immediates = 0 /\ ~checkPhase /\ cycle.source = "hotkey"

\* C10: a matching key event never runs handleCapture inside the observer
\* callback: a cycle triggered by the hotkey starts only in a later turn that
\* takes a pending immediate, and the step that enqueues starts no cycle.
C10_CaptureDeferred ==
    [][ /\ (active' > active /\ cycle'.source = "hotkey")
             => (immediates > 0 /\ immediates' = immediates - 1)
        /\ immediates' > immediates
             => (cycle' = cycle /\ active' = active /\ isProcessing' = isProcessing) ]_vars

\* a cycle triggered by the hotkey is in flight
C10_Witness == isProcessing /\ cycle.source = "hotkey" /\ cycle.pc = "listDisplays"

QueryGeminiCalled ==
    cycle.pc \in {"screenshot", "recognize"} /\ cycle'.ocrText # Null

\* C12: queryGemini called while the API key, the client or the bound model is
\* missing returns its not-ready failure in the same step: the image is not
\* read, no request is built or sent, and the cycle goes to its cleanup.
C12_NotReadyReturnsAtOnce ==
    [][ (QueryGeminiCalled /\ (apiKey = Null \/ googleAI = Null \/ model = Null))
        => /\ cycle'.geminiResponse \in
                { ERROR_PREFIX \o " Error: Gemini API Key not set.",
                  ERROR_PREFIX \o " Error: Gemini client not initialized.",
                  ERROR_PREFIX \o " Error: Gemini model (" \o aiModel \o ") not initialized." }
           /\ cycle'.pc = "access"
           /\ cycle'.ocrPart = Null
           /\ cycle'.outcome = "failed" ]_vars

\* a cycle accepted with a bound model found none when it called queryGemini
C12_Witness ==
    /\ cycle.pc = "access" /\ cycle.ocrText \in OcrTexts /\ cycle.ocrPart = Null
    /\ cycle.geminiResponse =
         ERROR_PREFIX \o " Error: Gemini model (" \o aiModel \o ") not initialized."

\* no service initialisation and no 'set-model' handler is in flight
ServicesAtRest ==
    picker.pc = "none" /\ \A id \in HandlerIds : handlers[id].pc = "free"

\* C13 as claimed: after any sequence of startup, set-apikey and set-model
\* operations, whenever fetchedModels is non-empty and aiModel is not a member
\* of it, no model is bound.
C13_UnlistedModelUnbound ==
    (ServicesAtRest /\ fetchedModels # << >> /\ aiModel \notin Range(fetchedModels))
    => model = Null

\* a step in which a fetch of the model list settles
FetchSettled ==
    \/ \E id \in HandlerIds : FetchDone(id) \/ FetchOnlyDone(id)
    \/ PickerFetchDone

\* C14 as claimed: every fetch that returns a non-empty list not containing
\* the configured aiModel sets aiModel to the first listed model and begins
\* the persistence write.
C14_FetchReselectsFirst ==
    [][ (FetchSettled /\ fetchedModels' # << >> /\ aiModel \notin Range(fetchedModels'))
        => /\ aiModel' = fetchedModels'[1]
           /\ \E id \in HandlerIds : handlers'[id].pc = "saveModel" ]_vars

\* C15 as claimed: every 'set-apikey' handler that has created its client has
\* fetched the model list by the time it finishes.
C15_SetApikeyFetches ==
    [][ \A id \in HandlerIds \ {0} :
          (handlers[id].pc # "free" /\ handlers'[id].pc = "free" /\ googleAI' = apiKey)
          => handlers[id].fetched ]_vars

\* C16 as claimed: every request to the generation endpoint goes through a
\* model instance created from the client of the current credential.
C16_QueryUsesCurrentCredential ==
    [][ (cycle.pc = "readImage" /\ cycle'.pc = "generateContent")
        => BoundUnder(model, apiKey) ]_vars

\* C17 as claimed: when the process exits, no accepted cycle is short of its
\* cleanup block.
C17_CleanupBeforeExit ==
    exited => cycle.pc \in {"idle", "access", "unlink"}

\* C18 as claimed: while a cycle is in flight no step changes the
\* configuration the pipeline uses.
C18_ConfigStableDuringCycle ==
    [][ isProcessing
        => /\ apiKey' = apiKey /\ aiModel' = aiModel /\ googleAI' = googleAI
           /\ model' = model /\ triggerKey' = triggerKey ]_vars

\* C19 as claimed: across all initializeServices calls the OCR worker is
\* created at most once.
C19_WorkerCreatedOnce == workersCreated <= 1

\* C20 as claimed: at most one OS-level key observer is alive.
C20_OneObserver == observers <= 1

\* key event ev is of combination combo: its key, with each of ctrl, shift,
\* alt and meta held exactly when the combination requires it
IsOf(ev, combo) ==
    /\ ev.name = combo.name
    /\ ev.ctrl = combo.ctrl
    /\ ev.shift = combo.shift
    /\ ev.alt = combo.alt
    /\ ev.meta = combo.meta

\* the combinations 'set-trigger' can arm, and the one armed at startup
Combinations ==
    {DefaultTrigger} \cup
    {ParseTriggerKey(keyString) :
        keyString \in {k \in TriggerInputs : TriggerParts(k) # << >>}}

\* C21 as claimed: one combination is armed at a time. Whatever 'set-trigger'
\* commands came before, a key-down evaluated while running and idle enqueues
\* a capture when it is of the combination armed last, and enqueues none when
\* it is only of another combination (the one armed before included).
C21_OneCombinationArmed ==
    [][ \A ev \in Events :
          EvaluatedKeyDown(ev)
          => /\ IsOf(ev, triggerKey) => immediates' = immediates + 1
             /\ (~IsOf(ev, triggerKey)
                 /\ \E other \in Combinations \ {triggerKey} : IsOf(ev, other))
                => immediates' = immediates ]_vars

\* the combination ALT+SHIFT+P
AltShiftP == [name |-> "P", ctrl |-> FALSE, shift |-> TRUE, alt |-> TRUE, meta |-> FALSE]

\* C22: 'set-trigger ALT+SHIFT+P' arms key P with alt and shift and neither
\* ctrl nor meta; while that combination is armed, each event of P with
\* exactly alt and shift held that the listener sees while running and idle
\* enqueues one capture if it is a key-down and none if it is a key-up.
C22_AltShiftP ==
    [][ /\ (SetTrigger("ALT+SHIFT+P") /\ ~LineIgnored("set-trigger"))
           => triggerKey' = AltShiftP
        /\ (triggerKey = AltShiftP /\ isRunning /\ ~isProcessing)
           => \A ev \in Events :
                (/\ ev.name = "P" /\ ev.alt /\ ev.shift /\ ~ev.ctrl /\ ~ev.meta
                 /\ ListenerCallback(ev))
                => immediates' = immediates + (IF ev.state = "DOWN" THEN 1 ELSE 0) ]_vars

\* ALT+SHIFT+P was armed by 'set-trigger' and a key-down has enqueued a capture
C22_Witness ==
    /\ triggerKey.name = "P" /\ triggerKey.alt /\ triggerKey.shift
    /\ ~triggerKey.ctrl /\ ~triggerKey.meta /\ immediates = 1


\* C23 as claimed: every step that changes apiKey or aiModel in memory is one
\* that goes on to `await saveEnvSettings()`, a 'set-model' selection whose
\* binding fails included.
C23_MutationPersisted ==
    [][ (apiKey' # apiKey \/ aiModel' # aiModel)
        => \/ picker'.pc = "save"
           \/ \E id \in HandlerIds :
                /\ handlers'[id].pc \in {"saveKey", "saveModel"}
                /\ handlers[id].pc # handlers'[id].pc ]_vars

\* C24 as claimed: the step in which a cycle fails raises the desktop error
\* notification; a trigger dropped because a cycle is active prints the
\* warning and raises none.
C24_FailureNotified ==
    [][ /\ (cycle.outcome # "failed" /\ cycle'.outcome = "failed") => errorNotified'
        /\ (isProcessing /\ RunImmediate)
           => /\ lastWarn' = "Already processing. Ignoring trigger from hotkey."
              /\ ~errorNotified' ]_vars

\* C25 as claimed: queryGemini always returns a value; whenever a cycle leaves
\* it, handleCapture holds its response.
C25_QueryNeverThrows ==
    [][ (cycle.pc \in {"readImage", "generateContent"}
         /\ cycle'.pc \notin {"readImage", "generateContent"})
        => cycle'.geminiResponse # Null ]_vars

\* C27 as claimed: a 'quit' line received while running starts the shutdown,
\* whether or not a cycle is in flight.
C27_QuitShutsDown ==
    [][ (QuitCommand /\ isRunning) => (~isRunning' /\ rlClosed') ]_vars

\* C28 as claimed: on darwin, with a combination armed that requires meta and
\* not ctrl, an evaluated key-down of that key with exactly the required
\* modifiers held (meta, and not ctrl) enqueues a capture.
C28_MetaWithoutCtrl ==
    [][ \A ev \in Events :
          (/\ operatingSystem = "darwin" /\ triggerKey.meta /\ ~triggerKey.ctrl
           /\ ExactMatch(ev) /\ EvaluatedKeyDown(ev))
          => immediates' = immediates + 1 ]_vars

\* a response without candidates, without content parts or without text
InvalidResponse(r) ==
    r.kind \in {"nocandidates", "noparts"} \/ (r.kind = "text" /\ r.text = "")

\* block reason if present, else finish reason, else 'Unknown'
TriggeringReason(r) ==
    IF r.blockReason # Null THEN r.blockReason
    ELSE IF r.finishReason # Null THEN r.finishReason
    ELSE "Unknown"

\* C29 as claimed: for a response without candidates, without content parts
\* or with empty text, queryGemini returns a failure whose detail carries the
\* reason: block reason if present, else finish reason, else 'Unknown'.
C29_FailureCarriesReason ==
    [][ \A r \in ApiOutcomes, notifyOk \in BOOLEAN :
          (InvalidResponse(r) /\ GenerateSettles(r, notifyOk))
          => /\ IsGeminiError(cycle'.geminiResponse)
             /\ Includes(cycle'.geminiResponse, "Reason: " \o TriggeringReason(r)) ]_vars

\* C26: a fatal event (uncaught exception or unhandled rejection) always
\* leads to process exit with code 1. With no shutdown begun, the handler runs
\* the shutdown sequence first (listener stopped, readline closed, worker
\* terminated when there is one) and the exit follows as soon as the sequence
\* has returned; with a shutdown begun or done, the handler exits at once.
C26_FatalLeadsToExit ==
    /\ [][ FatalError
           => IF shuttingDown \/ ~isRunning
              THEN exited' /\ exitCode' = 1
              ELSE /\ ~isRunning' /\ globalListener' = Null /\ rlClosed'
                   /\ IF worker # Null
                      THEN shutdownPc' = "terminate" /\ fatalPending' /\ ~exited'
                      ELSE exited' /\ exitCode' = 1 ]_vars
    /\ [](fatalPending /\ exited => exitCode = 1)
    /\ (fatalPending ~> (exited /\ exitCode = 1))

\* a fatal event found no shutdown begun: the worker was terminated, then the
\* process exited with code 1
C26_Witness ==
    /\ fatalPending /\ exited /\ exitCode = 1
    /\ worker = Null /\ globalListener = Null /\ rlClosed

\* the version of a name that has a version token, in thousandths
VersionOf(name) == ParseFloat(MatchVersion(name), 3)

\* C30 as claimed: in the fetched list, of two names that both have a version
\* token with different values the one with the higher version comes first,
\* and two names without version token are in lexical order.
C30_HigherVersionFirst ==
    \A i, j \in 1..Len(fetchedModels) :
        i < j
        => LET a == fetchedModels[i]
               b == fetchedModels[j]
           IN  /\ (MatchVersion(a) # Null /\ MatchVersion(b) # Null
                   /\ VersionOf(a) # VersionOf(b))
                  => VersionOf(a) > VersionOf(b)
               /\ (MatchVersion(a) = Null /\ MatchVersion(b) = Null)
                  => LocaleCompare(a, b) <= 0

\* the trailing key token of a typed combination is on the allow-list: one
\* character A-Z or 0-9, or a named special key
KeyTokenAllowed(keyString) ==
    LET parts == TriggerParts(keyString)
    IN  /\ parts # << >>
        /\ IsAlphanumeric(parts[Len(parts)]) \/ parts[Len(parts)] \in AllowedSpecialKeys

\* C31 as claimed: a 'set-trigger' whose key token is not on the allow-list
\* leaves the armed combination as it was.
C31_InvalidKeyNotArmed ==
    [][ \A keyString \in TriggerInputs :
          (SetTrigger(keyString) /\ ~KeyTokenAllowed(keyString))
          => triggerKey' = triggerKey ]_vars

\* what each typed combination with a key token stands for
ExpectedCombination ==
    [keyString \in TriggerInputs \ {"+"} |->
       CASE keyString \in {"CTRL+SHIFT+C", "shift+ctrl+c"} ->
              [name |-> "C", ctrl |-> TRUE, shift |-> TRUE, alt |-> FALSE, meta |-> FALSE]
         [] keyString = "ALT+SHIFT+P" ->
              [name |-> "P", ctrl |-> FALSE, shift |-> TRUE, alt |-> TRUE, meta |-> FALSE]
         [] keyString = "cmd + p" ->
              [name |-> "P", ctrl |-> FALSE, shift |-> FALSE, alt |-> FALSE, meta |-> TRUE]
         [] keyString = "ctrl+foo" ->
              [name |-> "FOO", ctrl |-> TRUE, shift |-> FALSE, alt |-> FALSE, meta |-> FALSE]
         [] keyString = "hyper+shift+k" ->
              [name |-> "K", ctrl |-> FALSE, shift |-> TRUE, alt |-> FALSE, meta |-> FALSE]]

\* C32: a typed combination with a key token is never rejected: 'set-trigger'
\* arms the last token, upper-cased, with exactly the recognized modifiers
\* among the tokens before it, whatever their order and letter case; an
\* unrecognized token before the last is dropped, and the warning about it is
\* the last one printed when the listener is created anew.
C32_UnrecognizedModifierDropped ==
    [][ \A keyString \in TriggerInputs \ {"+"} :
          (SetTrigger(keyString) /\ ~LineIgnored("set-trigger"))
          => /\ triggerKey' = ExpectedCombination[keyString]
             /\ (keyString = "hyper+shift+k" /\ globalListener = Null
                 /\ globalListener' # Null)
                => lastWarn' = "Unrecognized modifier: \"HYPER\". Ignoring." ]_vars

\* 'set-trigger hyper+shift+k' has armed SHIFT+K and the listener is up
C32_Witness ==
    /\ triggerKey.name = "K" /\ triggerKey.shift /\ ~triggerKey.ctrl
    /\ ~triggerKey.alt /\ ~triggerKey.meta
    /\ lastWarn = "Unrecognized modifier: \"HYPER\". Ignoring."
    /\ globalListener # Null

\* C33: a failed deletion of the screenshot does not keep the lock and does
\* not end the process. The step in which the cleanup block ends clears
\* isProcessing; when the file was missing it prints neither warning nor
\* error, and when fs.access or fs.unlink failed on an existing file it prints
\* the warning and no error.
C33_DeleteFailureReleases ==
    [][ (cycle.pc \in {"access", "unlink"} /\ cycle'.pc \notin {"access", "unlink"})
        => /\ ~isProcessing' /\ ~exited' /\ isRunning' = isRunning
           /\ (cycle.pc = "access" /\ ~fileExists)
              => (lastWarn' = Null /\ lastError' = Null /\ ~errorNotified')
           /\ ((cycle.pc = "access" /\ fileExists) \/ (cycle.pc = "unlink" /\ fileExists'))
              => /\ StartsWith(lastWarn', "Could not delete screenshot file: ")
                 /\ lastError' = Null /\ ~errorNotified' ]_vars

\* fs.unlink failed on the existing file: the warning was printed and the lock
\* released
C33_Witness ==
    /\ cycle.cleanup = "failed" /\ fileExists /\ ~isProcessing /\ cycle.pc = "idle"
    /\ lastWarn = "Could not delete screenshot file: EPERM"

\* C34: a step raises the desktop error notification only if it began with
\* isRunning true and isProcessing false: none is raised during a cycle or
\* once shutdown has begun.
C34_NotificationOnlyWhenIdle ==
    [][ errorNotified' => (isRunning /\ ~isProcessing /\ lastError' # Null) ]_vars

\* a capture refused for missing prerequisites raised the notification
C34_Witness ==
    /\ errorNotified /\ isRunning /\ ~isProcessing
    /\ StartsWith(lastError, "Cannot capture: ")

\* the contexts the pending step of a cycle can commit from context c, with
\* the screenshot file present or not
CycleSteps(c, file) ==
    CASE c.pc = "listDisplays" ->
           {[c EXCEPT !.pc = "screenshot"], CatchBlock(c, "No displays found."),
            CatchBlock(c, "listDisplays failed")}
      [] c.pc = "screenshot" -> {PerformOCR(c), CatchBlock(c, "screenshot failed")}
      [] c.pc = "recognize" ->
           {AfterOCR(LogError(c, "OCR process failed"), OCR_FAILED)}
           \cup {AfterOCR(c, text) : text \in OcrTexts}
      [] c.pc = "readImage" ->
           {SendRequest(c),
            QuerySettled(c, GeminiCatch("ENOENT: no such file or directory"), TRUE)}
      [] c.pc = "generateContent" ->
           {QuerySettled(c, GeminiResult(r[1]), r[2]) : r \in ApiOutcomes \X BOOLEAN}
      [] c.pc = "access" ->
           IF file THEN {[c EXCEPT !.pc = "unlink"], CleanupFailed(c, "EACCES")}
           ELSE {CleanupFailed(c, "ENOENT")}
      [] c.pc = "unlink" -> {CleanupDone(c), CleanupFailed(c, "EPERM")}
      [] OTHER -> {}

\* context d without the fields in `hidden`
Without(d, hidden) == [f \in DOMAIN d \ hidden |-> d[f]]

\* the context of the current state, had its cycle come from the other source
OtherSource ==
    [Ctx EXCEPT !.source = IF @ = "hotkey" THEN "command"
                           ELSE IF @ = "command" THEN "hotkey" ELSE @]

\* C35: the source of a trigger has no part in the pipeline. From any state,
\* handleCapture('hotkey') and handleCapture('command') refuse or start alike
\* (the text of the busy warning names the source) and, the source set aside,
\* every step of a cycle has the same outcomes whichever source started it:
\* same step sequence, notification, cleanup and final state.
C35_SourceIndependent ==
    /\ [](LET h == HandleCapture(Ctx, "hotkey")
              k == HandleCapture(Ctx, "command")
          IN  /\ Without(h, {"source", "warn"}) = Without(k, {"source", "warn"})
              /\ ~isProcessing => h.warn = k.warn)
    /\ []({Without(d, {"source"}) : d \in CycleSteps(Ctx, fileExists)}
          = {Without(d, {"source"}) : d \in CycleSteps(OtherSource, fileExists)})
    /\ [][ (cycle.pc # "idle" /\ cycle' # cycle)
           => \E d \in CycleSteps(Ctx, fileExists) :
                /\ cycle' = [f \in DOMAIN cycle |-> d[f]]
                /\ isProcessing' = d.isProcessing
                /\ cycle'.source = cycle.source ]_vars

\* a cycle started by the 'capture' command has ended with its answer shown
C35_Witness ==
    /\ cycle.source = "command" /\ cycle.pc = "idle" /\ cycle.outcome = "success"
    /\ cycle.cleanup = "deleted" /\ ~isProcessing


\* what the picker's no-op answers leave alone
pickerKept == << apiKey, aiModel, googleAI, model, fetchedModels, triggerKey,
                 handlers, saves, worker >>

\* the line typed is the number of a model of the page shown
IsModelNumber(choiceStr) == ChoiceOf[choiceStr] \in 1..Len(picker.shown)

\* the line typed is a number that is no model and no option of the page shown
IsInvalidNumber(choiceStr) ==
    /\ ChoiceOf[choiceStr] # NaN
    /\ \/ ChoiceOf[choiceStr] < 0
       \/ ChoiceOf[choiceStr] > Len(picker.shown)
                                      + (IF picker.showMore THEN 1 ELSE 0)
                                      + (IF picker.modelListPage > 0 THEN 1 ELSE 0)

\* C36: in the set-model picker, 0 or the number of the model that is already
\* current ends the picker with aiModel and the bound model unchanged and no
\* settings write started; a non-number or an invalid number changes nothing
\* and the question is asked again on the same page (at once for a
\* non-number, after the 50 ms delay for an invalid number).
C36_PickerNoOp ==
    [][ /\ \A choiceStr \in ChoiceInputs :
             /\ ( \/ ChoiceOf[choiceStr] = 0
                  \/ /\ IsModelNumber(choiceStr)
                     /\ picker.shown[ChoiceOf[choiceStr]] = aiModel )
                => ( (\E bindOk \in BOOLEAN : Answer(choiceStr, bindOk))
                     => picker' = NoPicker /\ UNCHANGED pickerKept )
             /\ IsInvalidNumber(choiceStr)
                => ( (\E bindOk \in BOOLEAN : Answer(choiceStr, bindOk))
                     => /\ UNCHANGED pickerKept
                        /\ picker'.pc = "delay"
                        /\ picker'.modelListPage = picker.modelListPage
                        /\ lastError' = "Invalid choice number." )
             /\ ChoiceOf[choiceStr] = NaN
                => ( (\E bindOk \in BOOLEAN : Answer(choiceStr, bindOk))
                     => /\ UNCHANGED pickerKept
                        /\ picker'.pc = "ask"
                        /\ picker'.modelListPage = picker.modelListPage
                        /\ picker'.shown = ModelsToShow(fetchedModels, picker.modelListPage)
                        /\ lastError' = "Invalid input. Please enter a number." )
        /\ PickerDelayDone
             => /\ UNCHANGED pickerKept
                /\ picker'.pc = "ask"
                /\ picker'.modelListPage = picker.modelListPage
                /\ picker'.shown = ModelsToShow(fetchedModels, picker.modelListPage) ]_vars

\* a non-number was typed on the second page and the second page is asked again
C36_Witness ==
    /\ picker.pc = "ask" /\ picker.modelListPage = 1
    /\ lastError = "Invalid input. Please enter a number."
    /\ picker.shown # << >>


\* C37 as claimed: whenever no saveEnvSettings call is in flight and none has
\* failed, a .env file that was written holds the settings that are in memory,
\* whatever the order in which overlapping calls finish.
C37_NoLostUpdate ==
    ( /\ \A id \in WriteIds : writes[id].pc = "free"
      /\ ~saveFailed
      /\ envFile # << >> )
    => envFile = << SettingsToSave(apiKey, aiModel, customPrompt, debugMode, triggerKey) >>


\* C38 as claimed: a capture cycle starts (isProcessing goes from false to
\* true) only while isRunning is true, also when the handleCapture that
\* starts it was queued by a hotkey match before shutdown began.
C38_NoCycleAfterShutdown ==
    [][ (~isProcessing /\ isProcessing') => isRunning ]_vars


\* what the cleanup sequence of shutdown() writes
cleanupVars == << isRunning, globalListener, observers, rlClosed, worker, shutdownPc,
                  shutdowns >>

\* C39: the cleanup sequence of shutdown() is started exactly once when
\* isRunning goes false and never again, the 'close' event that its own
\* rl.close() emits included; a quit/exit line, a signal or a readline close
\* that comes later changes nothing, and a fatal error that comes later runs
\* no cleanup step of its own (it only exits).
C39_CleanupOnce ==
    /\ [](shutdowns = IF isRunning THEN 0 ELSE 1)
    /\ [][ ~isRunning =>
             /\ (QuitCommand \/ ExitSignal \/ ReadlineClose)
                  => UNCHANGED << cleanupVars, shuttingDown, exited, fatalPending >>
             /\ FatalError => UNCHANGED cleanupVars /\ exited' ]_vars

\* the sequence has run to its end after the end of input or a quit line:
\* listener stopped, readline closed, worker terminated, exit timer set
C39_Witness ==
    /\ shutdowns = 1 /\ ~shuttingDown /\ globalListener = Null /\ rlClosed
    /\ worker = Null /\ shutdownPc = "exitTimer" /\ ~exited /\ workersCreated = 1


\* C40: in every state a bound model implies an initialized client and an
\* initialized client implies a credential; the step in which the client
\* initialization fails leaves client, model and fetched list cleared.
C40_ClientStateWellFormed ==
    /\ []( /\ model # Null => googleAI # Null
           /\ googleAI # Null => apiKey # Null )
    /\ [][ lastError' = "Gemini client initialization failed"
           => googleAI' = Null /\ model' = Null /\ fetchedModels' = << >> ]_vars

\* re-initialization after 'set-apikey key2' has failed to create the client
C40_Witness ==
    /\ lastError = "Gemini client initialization failed"
    /\ apiKey = "key2" /\ googleAI = Null /\ model = Null /\ fetchedModels = << >>

====
